---- MODULE Spec2Model ----
(***************************************************************************)
(* A model of the route-detour analysis engine of biker-buddy:             *)
(* RouteAnalysisAgent (src/src/route_agent.py) and the part of             *)
(* RouteOrchestrator (src/src/orchestrator.py) that consumes its output.   *)
(*                                                                         *)
(* Geometry.  Every coordinate of the model lies on one meridian           *)
(* (longitude Lon0) at a whole number of steps of latitude; one step is    *)
(* MetresPerStep metres of arc.  For two points of one meridian the        *)
(* haversine formula of haversine_distance reduces to r * |dlat|, so the   *)
(* distance in metres is |lat1 - lat2| * MetresPerStep.                    *)
(***************************************************************************)
EXTENDS Integers, Sequences, FiniteSets, TLC

VARIABLES
    pc,                 \* where the modelled call stands
    geojson_file,       \* analyze_route: the route file read (its content)
    sample_distance_m,  \* analyze_route: the spacing argument
    detour_radius_m,    \* analyze_route: the search radius argument
    coordinates,        \* analyze_route: the loaded route, a sequence of <<lat, lon>>
    sampled_coords,     \* analyze_route: the result of sample_route_coordinates
    all_detours,        \* analyze_route: every opportunity found so far
    route_segments,     \* analyze_route: one record per sample point visited
    i,                  \* analyze_route: the index of the loop over the sample points
    responses,          \* what the geographic-data service answered, per sample point
    queries,            \* the queries issued to the service, in order
    analysis,           \* what analyze_route returned
    files,              \* the report files written, by name
    result,             \* what analyze_route_for_amenities returned
    previous,           \* the analyses returned by earlier runs on the same input
    replay,             \* the service outcomes of the first run, replayed by a rerun
    clock,              \* what datetime.now() yields next
    user_needs,         \* _filter_amenities_by_user_needs: the needs argument
    chat,               \* RouteOrchestrator.chat: the locals and the caller's history
    reroute,            \* PathAgent.smart_reroute: the locals of the call
    detour_route        \* create_detour_route: the working directory and the locals

vars == <<pc, geojson_file, sample_distance_m, detour_radius_m, coordinates,
          sampled_coords, all_detours, route_segments, i, responses, queries,
          analysis, files, result, previous, replay, clock, user_needs,
                   chat, reroute, detour_route>>

(***************************************************************************)
(* Bounds of the model.                                                    *)
(***************************************************************************)
MaxPos == 3           \* latitudes are 0..MaxPos steps
MaxSampleLen == 4     \* longest route handed to the sampler on its own
MetresPerStep == 4    \* metres of arc in one step of latitude
MaxRoutePos == 2      \* latitudes of an analysed route file are 0..MaxRoutePos steps
MaxRouteLen == 3      \* most coordinates in an analysed route file
MaxListed == 2        \* most amenities listed at a sampling point of a document
MaxTags == 2          \* most tags on a feature whose tags are enumerated
MaxFeatures == 2      \* most features of one kind in an answer of the service
MaxPoints == 6        \* most sampling points of a document of several points
MaxToolCalls == 2     \* most tool calls in one answer of the model
MaxShared == 4        \* longest history on which main calls chat again
MaxHighways == 3      \* most highway segments detected on a route
MaxAttempts == 3      \* largest max_attempts of smart_reroute

Lon0 == 0             \* the one longitude of the model

Abs(x) == IF x < 0 THEN -x ELSE x

Last(s) == s[Len(s)]

\* Python's "x in list": equality of values.
SeqContains(s, x) == \E k \in 1..Len(s) : s[k] = x

\* Python's s[:n].
\* A slice that keeps the whole list.
TakeAll(s, n) == s

Take(s, n) == SubSeq(s, 1, IF Len(s) < n THEN Len(s) ELSE n)

\* All sequences over S of length lo..hi.
SeqsOf(S, lo, hi) == UNION {[1..n -> S] : n \in lo..hi}

Positions == 0..MaxPos
Coordinate(lat) == <<lat, Lon0>>
Coordinates == {Coordinate(lat) : lat \in Positions}

\* The spacings tried: every multiple of a step up to beyond the longest distance.
SampleDistances == {k * MetresPerStep : k \in 1..(MaxPos + 1)}

(***************************************************************************)
(* haversine_distance(coord1, coord2) * 1000: metres between two points.   *)
(***************************************************************************)
HaversineM(coord1, coord2) == Abs(coord2[1] - coord1[1]) * MetresPerStep

(***************************************************************************)
(* sample_route_coordinates: the loop of lines 79-86, from index at on.    *)
(***************************************************************************)
\* Line 85 with ">": a coordinate exactly one spacing away is not emitted.
EmitsStrict(distance, spacing) == distance > spacing

\* The test of line 85 with the comparison inverted.
EmitsInverted(distance, spacing) == distance <= spacing

\* Line 85: a coordinate is emitted when it is at least the spacing away.
Emits(distance, spacing) == distance >= spacing

RECURSIVE SampleLoop(_, _, _, _)
SampleLoop(coords, spacing, at, sampled) ==
    IF at > Len(coords) THEN sampled
    ELSE LET last_sampled == Last(sampled)
             current == coords[at]
             distance == HaversineM(last_sampled, current)
         IN  IF Emits(distance, spacing)
             THEN SampleLoop(coords, spacing, at + 1, Append(sampled, current))
             ELSE SampleLoop(coords, spacing, at + 1, sampled)

sample_route_coordinates(coords, spacing) ==
    IF coords = <<>> THEN <<>>
    ELSE LET sampled == SampleLoop(coords, spacing, 2, <<coords[1]>>)
         IN  IF ~SeqContains(sampled, Last(coords))
             THEN Append(sampled, Last(coords))
             ELSE sampled

(***************************************************************************)
(* Values.  A Python None is the number None; a nested list standing where *)
(* a number is expected is NotANumber.  A string built by formatting is    *)
(* the sequence of its parts: "amenity=cafe" is <<"amenity", "=", "cafe">>. *)
(* An Optional result is a sequence of length 0 (None) or 1.               *)
(***************************************************************************)
None == -1
NotANumber == -2

IsNumber(v) == v # NotANumber

\* tags is a dict, modelled in its iteration order as a sequence of <<key, value>>.
TagKeys(tags) == {tags[k][1] : k \in 1..Len(tags)}

\* tags.get(key, default)
TagGet(tags, key, default) ==
    IF key \in TagKeys(tags)
    THEN tags[CHOOSE k \in 1..Len(tags) : tags[k][1] = key][2]
    ELSE default

RECURSIVE SumOf(_, _)
SumOf(pairs, field) ==
    IF pairs = <<>> THEN 0 ELSE pairs[1][field] + SumOf(Tail(pairs), field)

RECURSIVE Flatten(_)
Flatten(seqs) == IF seqs = <<>> THEN <<>> ELSE seqs[1] \o Flatten(Tail(seqs))

\* [f(x) for x in s], where f yields an Optional and None is dropped.
RECURSIVE MapOptional(_, _)
MapOptional(f(_), s) ==
    IF s = <<>> THEN <<>> ELSE f(s[1]) \o MapOptional(f, Tail(s))

(***************************************************************************)
(* extract_amenity_info: a node of the amenity query.                      *)
(***************************************************************************)
NodeTypeKeys == {"amenity", "shop", "tourism"}

extract_amenity_info(node, route_lat, route_lon) ==
    IF node.lat = None \/ node.lon = None THEN <<>>
    ELSE LET amenity_lat == node.lat
             amenity_lon == node.lon
             distance == HaversineM(<<route_lat, route_lon>>, <<amenity_lat, amenity_lon>>)
             tags == node.tags
             hits == {k \in 1..Len(tags) : tags[k][1] \in NodeTypeKeys}
             first == CHOOSE k \in hits : \A j \in hits : k <= j
             amenity_type == IF hits = {} THEN <<"unknown">>
                             ELSE <<tags[first][1], "=", tags[first][2]>>
             category == IF hits = {} THEN "other" ELSE tags[first][1]
         IN  << [id |-> node.id,
                 name |-> IF "name" \in TagKeys(tags)
                          THEN <<TagGet(tags, "name", "")>>
                          ELSE <<"Unnamed ">> \o amenity_type,
                 type |-> amenity_type,
                 category |-> category,
                 brand |-> TagGet(tags, "brand", ""),
                 opening_hours |-> TagGet(tags, "opening_hours", ""),
                 location |-> <<amenity_lat, amenity_lon>>,
                 distance_from_route_m |-> distance,
                 osm_link |-> <<"https://openstreetmap.org/node/", node.id>>] >>

(***************************************************************************)
(* The member nodes of a way that carry both coordinates (lines 268-279    *)
(* and 372-384).                                                           *)
(***************************************************************************)
RECURSIVE ValidNodes(_)
ValidNodes(nodes) ==
    IF nodes = <<>> THEN <<>>
    ELSE LET node_ref == nodes[1]
         IN  (IF node_ref.lat # None /\ node_ref.lon # None
              THEN << <<node_ref.lat, node_ref.lon>> >>
              ELSE <<>>) \o ValidNodes(Tail(nodes))

(***************************************************************************)
(* extract_amenity_way_info: a way of the amenity query.  The centre is    *)
(* the mean of the member coordinates; the ways of the model have a whole  *)
(* mean, so the integer quotient is the mean.                              *)
(***************************************************************************)
\* Lines 407-414 with leisure ahead of tourism.
tag_categories_leisure_first ==
    <<"leisure", "tourism", "natural", "historic", "amenity", "shop">>

\* Lines 407-414: the dict of categories, in its order.
tag_categories == <<"tourism", "leisure", "natural", "historic", "amenity", "shop">>

AdditionalInfo(category, tags) ==
    IF category = "leisure"
    THEN << <<"park_type", TagGet(tags, "park:type", "")>>,
            <<"access", TagGet(tags, "access", "public")>>,
            <<"sport", TagGet(tags, "sport", "")>> >>
    ELSE IF category = "natural"
    THEN << <<"elevation", TagGet(tags, "ele", "")>>,
            <<"natural_type", TagGet(tags, "natural", "")>> >>
    ELSE IF category = "tourism"
    THEN << <<"tourism_type", TagGet(tags, "tourism", "")>>,
            <<"wheelchair", TagGet(tags, "wheelchair", "")>> >>
    ELSE IF category = "historic"
    THEN << <<"historic_type", TagGet(tags, "historic", "")>>,
            <<"heritage", TagGet(tags, "heritage", "")>> >>
    ELSE <<>>

extract_amenity_way_info(way, route_lat, route_lon) ==
    LET valid_nodes == ValidNodes(way.nodes)
    IN  IF way.nodes = <<>> \/ Len(valid_nodes) < 2 THEN <<>>
        ELSE LET center_lat == SumOf(valid_nodes, 1) \div Len(valid_nodes)
                 center_lon == SumOf(valid_nodes, 2) \div Len(valid_nodes)
                 distance == HaversineM(<<route_lat, route_lon>>, <<center_lat, center_lon>>)
                 tags == way.tags
                 hits == {k \in 1..Len(tag_categories) : tag_categories[k] \in TagKeys(tags)}
                 first == CHOOSE k \in hits : \A j \in hits : k <= j
                 key == tag_categories[first]
                 amenity_type == IF hits = {} THEN <<"unknown">>
                                 ELSE <<key, "=", TagGet(tags, key, "")>>
                 category == IF hits = {} THEN "other" ELSE key
             IN  << [id |-> way.id,
                     name |-> IF "name" \in TagKeys(tags)
                              THEN <<TagGet(tags, "name", "")>>
                              ELSE <<"Unnamed ">> \o amenity_type,
                     type |-> amenity_type,
                     category |-> category,
                     brand |-> TagGet(tags, "brand", ""),
                     opening_hours |-> TagGet(tags, "opening_hours", ""),
                     website |-> TagGet(tags, "website", ""),
                     phone |-> TagGet(tags, "phone", ""),
                     additional_info |-> AdditionalInfo(category, tags),
                     location |-> <<center_lat, center_lon>>,
                     distance_from_route_m |-> distance,
                     geometry_type |-> "way",
                     node_count |-> Len(valid_nodes),
                     osm_link |-> <<"https://openstreetmap.org/way/", way.id>>] >>

(***************************************************************************)
(* extract_simple_way_info: a way of the detour query.                     *)
(***************************************************************************)
\* Line 281 with "< 1": a way of a single resolvable node is accepted.
extract_simple_way_info_one_node(way) ==
    LET valid_nodes == ValidNodes(way.nodes)
    IN  IF way.nodes = <<>> \/ Len(valid_nodes) < 1 THEN <<>>
        ELSE << [id |-> way.id,
                 highway |-> TagGet(way.tags, "highway", "unknown"),
                 name |-> TagGet(way.tags, "name", ""),
                 maxspeed |-> TagGet(way.tags, "maxspeed", ""),
                 surface |-> TagGet(way.tags, "surface", ""),
                 bicycle |-> TagGet(way.tags, "bicycle", ""),
                 foot |-> TagGet(way.tags, "foot", ""),
                 middle_node |-> [lat |-> valid_nodes[Len(valid_nodes) \div 2 + 1][1],
                                  lon |-> valid_nodes[Len(valid_nodes) \div 2 + 1][2]],
                 node_count |-> Len(valid_nodes),
                 osm_link |-> <<"https://openstreetmap.org/way/", way.id>>] >>

extract_simple_way_info(way) ==
    LET valid_nodes == ValidNodes(way.nodes)
    IN  IF way.nodes = <<>> \/ Len(valid_nodes) < 2 THEN <<>>
        ELSE LET middle_index == Len(valid_nodes) \div 2
                 middle == valid_nodes[middle_index + 1]
                 tags == way.tags
             IN  << [id |-> way.id,
                     highway |-> TagGet(tags, "highway", "unknown"),
                     name |-> TagGet(tags, "name", ""),
                     maxspeed |-> TagGet(tags, "maxspeed", ""),
                     surface |-> TagGet(tags, "surface", ""),
                     bicycle |-> TagGet(tags, "bicycle", ""),
                     foot |-> TagGet(tags, "foot", ""),
                     middle_node |-> [lat |-> middle[1], lon |-> middle[2]],
                     node_count |-> Len(valid_nodes),
                     osm_link |-> <<"https://openstreetmap.org/way/", way.id>>] >>

(***************************************************************************)
(* create_amenity_detour and create_simple_way_detour.  A description is   *)
(* the tuple of the values its format string prints.                       *)
(***************************************************************************)
create_amenity_detour(amenity, main_route_lat, main_route_lon) ==
    [type |-> "amenity",
     amenity |-> amenity,
     detour_distance_m |-> amenity.distance_from_route_m,
     description |-> <<amenity.name, amenity.type, amenity.distance_from_route_m>>]

create_simple_way_detour(way, main_route_lat, main_route_lon) ==
    LET mid_lat == way.middle_node.lat
        mid_lon == way.middle_node.lon
        distance == HaversineM(<<main_route_lat, main_route_lon>>, <<mid_lat, mid_lon>>)
    IN  [type |-> "way",
         way |-> way,
         detour_distance_m |-> distance,
         description |-> <<way.id, distance>>]

(***************************************************************************)
(* find_detour_opportunities.  amenity_outcome and way_outcome are what    *)
(* overpass_api.query does for the two queries: it raises (failed) or      *)
(* returns a result.  The bounding box of lines 127-132 is computed        *)
(* outside the try block, so arithmetic on a non-number raises out of the  *)
(* method.  Yields what the method returns, the queries it issued, and     *)
(* whether it raised.                                                      *)
(***************************************************************************)
Query(kind, lat, lon, search_radius_m) ==
    [query |-> kind, lat |-> lat, lon |-> lon, search_radius_m |-> search_radius_m]

\* Lines 196-254: extraction and packaging of two successful results.
DetourOpportunities(lat, lon, amenity_result, detour_result) ==
    LET node_info(node) == extract_amenity_info(node, lat, lon)
        way_info(way) == extract_amenity_way_info(way, lat, lon)
        amenities == MapOptional(node_info, amenity_result.nodes)
                         \o MapOptional(way_info, amenity_result.ways)
        all_ways == MapOptional(extract_simple_way_info, detour_result.ways)
    IN  [k \in 1..Len(amenities) |-> create_amenity_detour(amenities[k], lat, lon)]
            \o [k \in 1..Len(all_ways) |-> create_simple_way_detour(all_ways[k], lat, lon)]

\* Lines 256-258 with the handler re-raising instead of returning [].
FailureReraised == TRUE

\* Lines 256-258: the handler returns [], so a failed query raises nothing.
FailureEscapes == FALSE

\* Lines 178-258 with a failed query issued once more before giving up.
find_detour_opportunities_retrying(lat, lon, search_radius_m, amenity_outcome, way_outcome) ==
    LET amenity_query == Query("amenity", lat, lon, search_radius_m)
        detour_query == Query("way", lat, lon, search_radius_m)
    IN  IF ~IsNumber(lat) \/ ~IsNumber(lon)
        THEN [raised |-> TRUE, queries |-> <<>>, detours |-> <<>>]
        ELSE IF amenity_outcome.failed
        THEN [raised |-> FALSE, queries |-> <<amenity_query, amenity_query>>,
              detours |-> <<>>]
        ELSE IF way_outcome.failed
        THEN [raised |-> FALSE,
              queries |-> <<amenity_query, detour_query, detour_query>>,
              detours |-> <<>>]
        ELSE [raised |-> FALSE, queries |-> <<amenity_query, detour_query>>,
              detours |-> DetourOpportunities(lat, lon, amenity_outcome, way_outcome)]

find_detour_opportunities(lat, lon, search_radius_m, amenity_outcome, way_outcome) ==
    LET amenity_query == Query("amenity", lat, lon, search_radius_m)
        detour_query == Query("way", lat, lon, search_radius_m)
    IN  IF ~IsNumber(lat) \/ ~IsNumber(lon)
        THEN [raised |-> TRUE, queries |-> <<>>, detours |-> <<>>]
        ELSE IF amenity_outcome.failed
        THEN [raised |-> FailureEscapes, queries |-> <<amenity_query>>,
              detours |-> <<>>]
        ELSE IF way_outcome.failed
        THEN [raised |-> FailureEscapes,
              queries |-> <<amenity_query, detour_query>>, detours |-> <<>>]
        ELSE [raised |-> FALSE, queries |-> <<amenity_query, detour_query>>,
              detours |-> DetourOpportunities(lat, lon, amenity_outcome, way_outcome)]

(***************************************************************************)
(* load_geojson_route.  A route file is                                    *)
(*   readable:    open and json.load succeed;                              *)
(*   type:        the document's "type";                                   *)
(*   features:    how many features a FeatureCollection holds;             *)
(*   has_geometry: the (first) feature has a "geometry" key;               *)
(*   depth:       the nesting of geometry.coordinates: 1 a Point (numbers),*)
(*                2 a LineString (pairs), 3 a Polygon or MultiLineString   *)
(*                (lists of pairs);                                        *)
(*   coordinates: the [lon, lat] pairs of a LineString; for depth 3 one    *)
(*                entry per ring, for depth 1 the one pair is the point.   *)
(* Any exception ends in the handler of lines 65-67, which returns [].     *)
(***************************************************************************)
load_geojson_route(file) ==
    IF ~file.readable THEN <<>>
    ELSE IF file.type = "Feature" /\ ~file.has_geometry THEN <<>>
    ELSE IF file.type = "FeatureCollection" /\ (file.features = 0 \/ ~file.has_geometry)
    THEN <<>>
    ELSE IF file.type \notin {"Feature", "FeatureCollection"} THEN <<>>
    ELSE IF file.depth = 1 THEN <<>>
    ELSE IF file.depth = 2
    THEN [k \in 1..Len(file.coordinates) |->
              <<file.coordinates[k][2], file.coordinates[k][1]>>]
    ELSE [k \in 1..Len(file.coordinates) |-> <<NotANumber, NotANumber>>]

\* haversine_distance raises on a non-number: math.radians of a list.
SamplingRaises(coords) ==
    /\ Len(coords) > 1
    /\ \E k \in 1..2 : ~IsNumber(coords[k][1]) \/ ~IsNumber(coords[k][2])

(***************************************************************************)
(* analyze_route, lines 527-574: distance, deduplication, the report.      *)
(* route_distance_km is round(km, 2), held as hundredths of a kilometre    *)
(* (tens of metres); Python rounds a half to the even neighbour.           *)
(***************************************************************************)
RoundHalfEven(n, unit) ==
    LET q == n \div unit
        r == n % unit
    IN  IF 2 * r < unit THEN q
        ELSE IF 2 * r > unit THEN q + 1
        ELSE IF q % 2 = 0 THEN q ELSE q + 1

RECURSIVE RouteDistanceM(_)
RouteDistanceM(coords) ==
    IF Len(coords) < 2 THEN 0
    ELSE HaversineM(coords[1], coords[2]) + RouteDistanceM(Tail(coords))

DetourKey(detour) ==
    IF detour.type = "amenity" THEN <<"amenity", detour.amenity.id>>
    ELSE <<"way", detour.way.id>>

\* Lines 542-543 without the membership test: a later detour replaces the entry.
RECURSIVE KeepLast(_, _)
KeepLast(detours, unique_detours) ==
    IF detours = <<>> THEN unique_detours
    ELSE LET detour == detours[1]
             key == DetourKey(detour)
             held == {k \in 1..Len(unique_detours) : DetourKey(unique_detours[k]) = key}
         IN  IF detour.type \notin {"amenity", "way"}
             THEN KeepLast(Tail(detours), unique_detours)
             ELSE IF held = {}
             THEN KeepLast(Tail(detours), Append(unique_detours, detour))
             ELSE KeepLast(Tail(detours),
                           [k \in 1..Len(unique_detours) |->
                                IF k \in held THEN detour ELSE unique_detours[k]])

\* Lines 533-545 with each new key put ahead of the keys held.
RECURSIVE DeduplicateNewestFirst(_, _)
DeduplicateNewestFirst(detours, unique_detours) ==
    IF detours = <<>> THEN unique_detours
    ELSE LET detour == detours[1]
             key == DetourKey(detour)
         IN  IF detour.type \notin {"amenity", "way"}
             THEN DeduplicateNewestFirst(Tail(detours), unique_detours)
             ELSE IF \A k \in 1..Len(unique_detours) : DetourKey(unique_detours[k]) # key
             THEN DeduplicateNewestFirst(Tail(detours), <<detour>> \o unique_detours)
             ELSE DeduplicateNewestFirst(Tail(detours), unique_detours)

\* Lines 533-545: the dict keeps the first detour of each key, in insertion order.
RECURSIVE Deduplicate(_, _)
Deduplicate(detours, unique_detours) ==
    IF detours = <<>> THEN unique_detours
    ELSE LET detour == detours[1]
             key == DetourKey(detour)
         IN  IF detour.type \notin {"amenity", "way"}
             THEN Deduplicate(Tail(detours), unique_detours)
             ELSE IF \A k \in 1..Len(unique_detours) : DetourKey(unique_detours[k]) # key
             THEN Deduplicate(Tail(detours), Append(unique_detours, detour))
             ELSE Deduplicate(Tail(detours), unique_detours)

\* Line 552 with a kind no detour has: no detour counts as a way.
IsNoWay(d) == d.type = "ways"

IsAmenity(d) == d.type = "amenity"
IsWay(d) == d.type = "way"

\* Lines 528-530 summed over the sampled points instead of the whole route.
DistanceOfSampled(coords, sampled) == RouteDistanceM(sampled)

\* Lines 528-530: the distance is summed over every coordinate of the route.
DistanceOfRoute(coords, sampled) == RouteDistanceM(coords)

Report(file, coords, sampled, segments, detours) ==
    LET route_distance_m == DistanceOfRoute(coords, sampled)
        unique_detours == Deduplicate(detours, <<>>)
        amenity_detours == SelectSeq(unique_detours, IsAmenity)
        way_detours == SelectSeq(unique_detours, IsWay)
    IN  [route_file |-> file.name,
         analysis_date |-> None,
         route_info |-> [total_coordinates |-> Len(coords),
                         sampled_points |-> Len(sampled),
                         route_distance_km |-> RoundHalfEven(route_distance_m, 10),
                         start_coordinate |-> coords[1],
                         end_coordinate |-> Last(coords)],
         detour_summary |-> [total_detours |-> Len(unique_detours),
                             amenity_detours |-> Len(amenity_detours),
                             way_detours |-> Len(way_detours)],
         route_segments |-> segments,
         all_detours |-> [amenities |-> amenity_detours, ways |-> way_detours]]

(***************************************************************************)
(* save_analysis_report.  The append of line 640 stands after the loop of  *)
(* lines 594-638, so the document holds the entry built for the last       *)
(* segment only.                                                           *)
(***************************************************************************)
AmenityInfo(detour) ==
    LET amenity == detour.amenity
    IN  [id |-> amenity.id,
         name |-> amenity.name,
         type |-> amenity.type,
         category |-> amenity.category,
         brand |-> amenity.brand,
         opening_hours |-> amenity.opening_hours,
         distance_from_route_m |-> detour.detour_distance_m,
         location |-> [lat |-> amenity.location[1], lon |-> amenity.location[2]],
         osm_link |-> amenity.osm_link]

WayInfo(detour) ==
    LET way == detour.way
    IN  [id |-> way.id,
         highway |-> way.highway,
         maxspeed |-> way.maxspeed,
         surface |-> way.surface,
         distance_from_route_m |-> detour.detour_distance_m,
         middle_node |-> way.middle_node]

SegmentInfo(segment) ==
    LET amenities == SelectSeq(segment.detours, IsAmenity)
        ways == SelectSeq(segment.detours, IsWay)
    IN  [point_id |-> segment.segment_id,
         coordinate |-> [lat |-> segment.coordinate[1], lon |-> segment.coordinate[2]],
         detour_count |-> segment.detour_count,
         detours |-> [amenities |-> [k \in 1..Len(amenities) |-> AmenityInfo(amenities[k])],
                      ways |-> [k \in 1..Len(ways) |-> WayInfo(ways[k])]]]

\* The document json.dump writes to detour_opportunities.json.
clean_output(report, now) ==
    [route_info |-> report.route_info,
     analysis_date |-> now,
     detour_summary |-> report.detour_summary,
     sampling_points |-> <<SegmentInfo(Last(report.route_segments))>>]

(***************************************************************************)
(* _filter_and_summarize_amenities.  "needle in text" of a text held as    *)
(* parts: none of the needles holds "=", so a needle occurs in key=value   *)
(* exactly when it occurs in the key or in the value.  ProperSubstrings    *)
(* lists the needles that occur inside a longer word of the vocabulary.    *)
(***************************************************************************)
priority_categories ==
    {"restaurant", "cafe", "fast_food", "pub", "bar",
     "bank", "atm", "pharmacy", "hospital",
     "toilets", "drinking_water", "water_point", "fountain",
     "bicycle_parking", "bicycle_rental", "bicycle_repair_station",
     "park", "viewpoint", "attraction", "museum", "gallery"}

skip_types == {"bench", "waste_basket", "recycling", "unknown"}

ProperSubstrings ==
    {<<"park", "bicycle_parking">>, <<"bicycle", "bicycle_parking">>,
     <<"park", "parking">>}

OccursIn(needle, text) ==
    \E k \in 1..Len(text) : needle = text[k] \/ <<needle, text[k]>> \in ProperSubstrings

KeepsAmenity(amenity) ==
    /\ ~(/\ amenity.name[1] = "Unnamed "
         /\ ~\E cat \in priority_categories : OccursIn(cat, amenity.type))
    /\ ~\E skip \in skip_types : OccursIn(skip, amenity.type)
    /\ ~(amenity.distance_from_route_m > 200)

Summarized(amenity) ==
    [name |-> amenity.name,
     type |-> amenity.type,
     category |-> amenity.category,
     brand |-> amenity.brand,
     opening_hours |-> amenity.opening_hours,
     distance_m |-> amenity.distance_from_route_m,
     location |-> amenity.location]

\* Lines 232-237: the amenities of one point grouped by category, as the
\* dict's items in insertion order.
RECURSIVE GroupByCategory(_, _)
GroupByCategory(amenities, category_counts) ==
    IF amenities = <<>> THEN category_counts
    ELSE LET amenity == amenities[1]
             cat == amenity.category
             at == {k \in 1..Len(category_counts) : category_counts[k][1] = cat}
         IN  IF at = {}
             THEN GroupByCategory(Tail(amenities),
                                  Append(category_counts, <<cat, <<amenity>> >>))
             ELSE GroupByCategory(Tail(amenities),
                                  [k \in 1..Len(category_counts) |->
                                       IF k \in at
                                       THEN <<cat, Append(category_counts[k][2], amenity)>>
                                       ELSE category_counts[k]])

\* Lines 182-183 removed: analysis['sampling_points'] of line 201 raises KeyError.
filter_unguarded(report) ==
    IF "sampling_points" \notin DOMAIN report
    THEN [raised |-> "KeyError: 'sampling_points'"]
    ELSE [route_info |-> report.route_info]

RECURSIVE SummarizedPoints(_)
SummarizedPoints(points) ==
    IF points = <<>> THEN <<>>
    ELSE LET point == points[1]
             rest == SummarizedPoints(Tail(points))
         IN  IF "detours" \notin DOMAIN point \/ "amenities" \notin DOMAIN point.detours
             THEN rest
             ELSE LET kept == SelectSeq(point.detours.amenities, KeepsAmenity)
                      filtered_amenities == [k \in 1..Len(kept) |-> Summarized(kept[k])]
                  IN  IF filtered_amenities = <<>> THEN rest
                      ELSE << [coordinate |-> point.coordinate,
                               amenity_summary |-> GroupByCategory(filtered_amenities, <<>>),
                               total_nearby |-> Len(filtered_amenities)] >> \o rest

RECURSIVE TotalNearby(_)
TotalNearby(points) ==
    IF points = <<>> THEN 0 ELSE points[1].total_nearby + TotalNearby(Tail(points))

filter_and_summarize_amenities(report) ==
    IF "sampling_points" \notin DOMAIN report THEN report
    ELSE LET summarized_points == SummarizedPoints(report.sampling_points)
             total_filtered_amenities == TotalNearby(summarized_points)
         IN  [route_info |-> report.route_info,
              total_relevant_amenities |-> total_filtered_amenities,
              key_amenity_locations |-> Take(summarized_points, 3),
              summary |-> <<"Found ", total_filtered_amenities,
                            " relevant amenities along the route">>]

(***************************************************************************)
(* _filter_amenities_by_user_needs.  str.lower() maps each word of the     *)
(* vocabulary to its lowercase form; the words of the model are lowercase  *)
(* but for those listed.  need_to_categories is the dict of lines 261-297  *)
(* as its items.                                                           *)
(***************************************************************************)
LowerWord(word) ==
    IF word = "Cafe" THEN "cafe"
    ELSE IF word = "COFFEE" THEN "coffee"
    ELSE word

Lower(text) == [k \in 1..Len(text) |-> LowerWord(text[k])]

default_categories ==
    {"restaurant", "cafe", "fast_food", "bank", "atm", "toilets",
     "drinking_water", "bicycle_repair_station", "park", "viewpoint"}

need_to_categories ==
    << <<"food", {"restaurant", "cafe", "fast_food", "pub", "bar", "bakery"}>>,
       <<"coffee", {"cafe"}>>,
       <<"restaurant", {"restaurant", "fast_food", "pub", "bar"}>>,
       <<"drink", {"pub", "bar", "cafe"}>>,
       <<"eating", {"restaurant", "cafe", "fast_food", "bakery"}>>,
       <<"money", {"bank", "atm"}>>,
       <<"bank", {"bank", "atm"}>>,
       <<"atm", {"atm"}>>,
       <<"medical", {"pharmacy", "hospital"}>>,
       <<"pharmacy", {"pharmacy"}>>,
       <<"gas", {"fuel"}>>,
       <<"fuel", {"fuel"}>>,
       <<"water", {"drinking_water", "water_point", "fountain"}>>,
       <<"toilet", {"toilets"}>>,
       <<"restroom", {"toilets"}>>,
       <<"bathroom", {"toilets"}>>,
       <<"bike", {"bicycle_parking", "bicycle_rental", "bicycle_repair_station",
                  "bicycle"}>>,
       <<"parking", {"bicycle_parking"}>>,
       <<"repair", {"bicycle_repair_station"}>>,
       <<"park", {"park", "garden", "nature_reserve"}>>,
       <<"recreation", {"park", "playground", "sports_centre", "swimming_pool"}>>,
       <<"tourist", {"viewpoint", "attraction", "museum", "gallery"}>>,
       <<"shopping", {"convenience", "supermarket", "mall", "shop"}>>,
       <<"default", default_categories>> >>

\* "a in b" of two words.
Within(a, b) == a = b \/ <<a, b>> \in ProperSubstrings

\* Lines 300-308 with the needs ignored: always the default categories.
target_categories_default(needs) == default_categories

\* Lines 300-308: the categories of every key that holds a need or is held by it.
target_categories(needs) ==
    LET hit(k) == \E n \in 1..Len(needs) :
                      LET need_lower == LowerWord(needs[n])
                          key == need_to_categories[k][1]
                      IN  Within(key, need_lower) \/ Within(need_lower, key)
        matched == UNION {need_to_categories[k][2] :
                              k \in {j \in 1..Len(need_to_categories) : hit(j)}}
    IN  IF needs = <<>> THEN default_categories
        ELSE IF matched = {} THEN default_categories
        ELSE matched

\* Line 333 with the general allowance (150) used for specific needs too.
max_distance_general(needs) == 150

\* Line 333: 250 m for specific requests, 150 m without.
max_distance(needs) == IF needs # <<>> THEN 250 ELSE 150

high_priority == {"restaurant", "cafe", "bank", "atm", "park"}

KeepsForNeeds(amenity, needs) ==
    LET amenity_type == Lower(amenity.type)
    IN  /\ \E cat \in target_categories(needs) : OccursIn(cat, amenity_type)
        /\ ~(amenity.distance_from_route_m > max_distance(needs))
        /\ ~(/\ amenity.name[1] = "Unnamed "
             /\ ~\E priority \in high_priority : OccursIn(priority, amenity_type))

SummarizedForNeeds(amenity) ==
    [name |-> amenity.name,
     type |-> amenity.type,
     category |-> amenity.category,
     brand |-> amenity.brand,
     opening_hours |-> amenity.opening_hours,
     distance_m |-> amenity.distance_from_route_m,
     location |-> amenity.location,
     additional_info |-> IF "additional_info" \in DOMAIN amenity
                         THEN amenity.additional_info ELSE <<>>]

RECURSIVE PointsForNeeds(_, _)
PointsForNeeds(points, needs) ==
    IF points = <<>> THEN <<>>
    ELSE LET point == points[1]
             rest == PointsForNeeds(Tail(points), needs)
             keeps(amenity) == KeepsForNeeds(amenity, needs)
         IN  IF "detours" \notin DOMAIN point \/ "amenities" \notin DOMAIN point.detours
             THEN rest
             ELSE LET kept == SelectSeq(point.detours.amenities, keeps)
                      filtered_amenities ==
                          [k \in 1..Len(kept) |-> SummarizedForNeeds(kept[k])]
                  IN  IF filtered_amenities = <<>> THEN rest
                      ELSE << [coordinate |-> point.coordinate,
                               amenity_summary |-> GroupByCategory(filtered_amenities, <<>>),
                               total_nearby |-> Len(filtered_amenities)] >> \o rest

\* target_categories is list(set): its order is not fixed, so it is held as the set.
filter_amenities_by_user_needs(report, needs) ==
    IF "sampling_points" \notin DOMAIN report THEN report
    ELSE LET summarized_points == PointsForNeeds(report.sampling_points, needs)
             total_filtered_amenities == TotalNearby(summarized_points)
         IN  [route_info |-> report.route_info,
              user_needs |-> needs,
              target_categories |-> target_categories(needs),
              total_relevant_amenities |-> total_filtered_amenities,
              key_amenity_locations |-> Take(summarized_points, 5),
              summary |-> <<"Found ", total_filtered_amenities,
                            " relevant amenities for: ",
                            IF needs # <<>> THEN needs ELSE <<"general needs">> >>]

(***************************************************************************)
(* The inputs: route files, arguments, and what the geographic-data        *)
(* service may answer.                                                     *)
(***************************************************************************)
FileCoordinates == {<<Lon0, lat>> : lat \in 0..MaxRoutePos}

RouteFile(type, features, has_geometry, depth, coords) ==
    [name |-> "route.json", exists |-> TRUE, readable |-> TRUE, type |-> type,
     features |-> features, has_geometry |-> has_geometry, depth |-> depth,
     coordinates |-> coords]

LineStringFiles ==
    {RouteFile("Feature", 1, TRUE, 2, coords) :
         coords \in SeqsOf(FileCoordinates, 0, MaxRouteLen)}

TwoPoints == << <<Lon0, 0>>, <<Lon0, 1>> >>

MissingFile == [RouteFile("Feature", 1, TRUE, 2, TwoPoints)
                    EXCEPT !.exists = FALSE, !.readable = FALSE]
UnparsableFile == [RouteFile("Feature", 1, TRUE, 2, TwoPoints) EXCEPT !.readable = FALSE]
NoGeometryFile == RouteFile("Feature", 1, FALSE, 2, <<>>)
BareGeometryFile == RouteFile("LineString", 0, FALSE, 2, TwoPoints)
EmptyCollectionFile == RouteFile("FeatureCollection", 0, FALSE, 2, <<>>)
CollectionFile == RouteFile("FeatureCollection", 1, TRUE, 2, TwoPoints)
PointFile == RouteFile("Feature", 1, TRUE, 1, << <<Lon0, 1>> >>)
PolygonFile == RouteFile("Feature", 1, TRUE, 3, << <<Lon0, 0>> >>)
MultiLineFile == RouteFile("Feature", 1, TRUE, 3, TwoPoints)

\* The files C6 names: missing, unparsable, no geometry, not a LineString.
MalformedFiles ==
    {MissingFile, UnparsableFile, NoGeometryFile, BareGeometryFile,
     EmptyCollectionFile, PointFile, PolygonFile, MultiLineFile}

RouteFiles == LineStringFiles \cup MalformedFiles \cup {CollectionFile}

RouteSampleDistances == {k * MetresPerStep : k \in 1..MaxRoutePos}

DetourRadii == {200, 250}

NodeRef(lat) == [lat |-> lat, lon |-> Lon0]

CafeNode ==
    [id |-> 1, lat |-> 0, lon |-> Lon0,
     tags |-> << <<"amenity", "cafe">>, <<"name", "Joe">> >>]
BrokenNode ==
    [id |-> 2, lat |-> None, lon |-> Lon0, tags |-> << <<"amenity", "toilets">> >>]
BenchNode ==
    [id |-> 3, lat |-> 1, lon |-> Lon0, tags |-> << <<"amenity", "bench">> >>]
ParkWay ==
    [id |-> 1, nodes |-> <<NodeRef(0), NodeRef(None), NodeRef(2)>>,
     tags |-> << <<"leisure", "park">>, <<"tourism", "viewpoint">> >>]
CycleWay ==
    [id |-> 7, nodes |-> <<NodeRef(0), NodeRef(1), NodeRef(2)>>,
     tags |-> << <<"highway", "cycleway">>, <<"name", "Greenway">> >>]
StubWay ==
    [id |-> 8, nodes |-> <<NodeRef(1)>>, tags |-> << <<"highway", "path">> >>]

QueryFailed == [failed |-> TRUE, nodes |-> <<>>, ways |-> <<>>]
NoFeatures == [failed |-> FALSE, nodes |-> <<>>, ways |-> <<>>]

AmenitiesFound ==
    [failed |-> FALSE, nodes |-> <<CafeNode, BrokenNode, BenchNode>>, ways |-> <<ParkWay>>]
WaysFound ==
    [failed |-> FALSE, nodes |-> <<>>, ways |-> <<CycleWay, StubWay>>]

\* The detour query is issued only when the amenity query returned.
NotAsked == [failed |-> FALSE, nodes |-> <<>>, ways |-> <<>>, asked |-> FALSE]

\* What the service does at one sample point: the amenity query fails; both
\* queries return nothing; the amenity query returns features and the detour
\* query fails; both return features.
PointOutcomes ==
    {[amenity |-> QueryFailed, way |-> NotAsked],
     [amenity |-> NoFeatures, way |-> NoFeatures],
     [amenity |-> AmenitiesFound, way |-> QueryFailed],
     [amenity |-> AmenitiesFound, way |-> WaysFound]}

NoAnalysis == [pending |-> TRUE]
NoResult == [pending |-> TRUE]
NoFiles == [detour_opportunities |-> <<>>, detour_opportunities_filter |-> <<>>]
NoChat == [pending |-> TRUE]
NoReroute == [pending |-> TRUE]
NoDetour == [pending |-> TRUE]

\* The variables of the analyzer and of the filters, which the chat loop,
\* the rerouting and the detour route leave alone.
analyzer_vars ==
    <<geojson_file, sample_distance_m, detour_radius_m, coordinates, sampled_coords,
      all_detours, route_segments, i, responses, queries, analysis, files, result,
      previous, replay, clock, user_needs>>

\* Init of the specifications that do not run the analyzer.
AnalyzerIdle ==
    /\ geojson_file = NoGeometryFile
    /\ sample_distance_m = 0
    /\ detour_radius_m = 0
    /\ coordinates = <<>>
    /\ sampled_coords = <<>>
    /\ all_detours = <<>>
    /\ route_segments = <<>>
    /\ i = 0
    /\ responses = <<>>
    /\ queries = <<>>
    /\ analysis = NoAnalysis
    /\ files = NoFiles
    /\ result = NoResult
    /\ previous = <<>>
    /\ replay = <<>>
    /\ clock = 1
    /\ user_needs = <<>>

(***************************************************************************)
(* The state before any call.                                              *)
(***************************************************************************)
\* Line 508 with the list kept from the call before.
StaleSegments == route_segments

\* Line 508: a call starts from an empty list of segments.
FreshSegments == <<>>

Init ==
    /\ pc = "idle"
    /\ geojson_file = NoGeometryFile
    /\ sample_distance_m = 0
    /\ detour_radius_m = 0
    /\ coordinates = <<>>
    /\ sampled_coords = <<>>
    /\ all_detours = <<>>
    /\ route_segments = <<>>
    /\ i = 0
    /\ responses = <<>>
    /\ queries = <<>>
    /\ analysis = NoAnalysis
    /\ files = NoFiles
    /\ result = NoResult
    /\ previous = <<>>
    /\ replay = <<>>
    /\ clock = 1
    /\ user_needs = <<>>
    /\ chat = NoChat
    /\ reroute = NoReroute
    /\ detour_route = NoDetour

(***************************************************************************)
(* analyze_route, lines 493-508: load the route, sample it.  An empty      *)
(* route returns the error; a raise of the sampler leaves the method.      *)
(***************************************************************************)
Enter(file, spacing, radius) ==
    LET coords == load_geojson_route(file)
    IN  /\ geojson_file' = file
        /\ sample_distance_m' = spacing
        /\ detour_radius_m' = radius
        /\ coordinates' = coords
        /\ route_segments' = FreshSegments
        /\ i' = 0
        /\ responses' = <<>>
        /\ queries' = <<>>
        /\ IF coords = <<>>
           THEN /\ analysis' = [error |-> "Could not load route coordinates"]
                /\ pc' = "analyzed"
                /\ sampled_coords' = <<>>
                /\ all_detours' = all_detours
           ELSE IF SamplingRaises(coords)
           THEN /\ analysis' = NoAnalysis
                /\ pc' = "raised"
                /\ sampled_coords' = <<>>
                /\ all_detours' = all_detours
           ELSE /\ analysis' = NoAnalysis
                /\ pc' = "discover"
                /\ sampled_coords' = sample_route_coordinates(coords, spacing)
                /\ all_detours' = <<>>

AnalyzeRoute ==
    /\ pc = "idle"
    /\ \E file \in RouteFiles, spacing \in RouteSampleDistances, radius \in DetourRadii :
           Enter(file, spacing, radius)
    /\ UNCHANGED <<files, result, previous, replay, clock, user_needs,
                   chat, reroute, detour_route>>

(***************************************************************************)
(* analyze_route, lines 510-574: one pass of the loop over the sample      *)
(* points, with the two queries of find_detour_opportunities; after the    *)
(* last point the method computes the distance, deduplicates and returns.  *)
(***************************************************************************)
Discover ==
    /\ pc = "discover"
    /\ LET lat == sampled_coords[i + 1][1]
           lon == sampled_coords[i + 1][2]
       IN  \E outcome \in (IF replay = <<>> THEN PointOutcomes ELSE {replay[i + 1]}) :
             LET found == find_detour_opportunities(lat, lon, detour_radius_m,
                                                    outcome.amenity, outcome.way)
                 detours == found.detours
                 segment_data == [segment_id |-> i + 1,
                                  coordinate |-> <<lat, lon>>,
                                  detour_count |-> Len(detours),
                                  detours |-> detours]
                 segments == Append(route_segments, segment_data)
                 collected == all_detours \o detours
             IN  /\ queries' = queries \o found.queries
                 /\ IF found.raised
                    THEN /\ pc' = "raised"
                         /\ UNCHANGED <<route_segments, all_detours, i, responses, analysis>>
                    ELSE /\ route_segments' = segments
                         /\ all_detours' = collected
                         /\ i' = i + 1
                         /\ responses' = Append(responses, outcome)
                         /\ IF i + 1 = Len(sampled_coords)
                            THEN /\ analysis' = Report(geojson_file, coordinates,
                                                       sampled_coords, segments, collected)
                                 /\ pc' = "analyzed"
                            ELSE UNCHANGED <<pc, analysis>>
    /\ UNCHANGED <<geojson_file, sample_distance_m, detour_radius_m, coordinates,
                   sampled_coords, files, result, previous, replay, clock, user_needs,
                   chat, reroute, detour_route>>

(***************************************************************************)
(* analyze_my_route, lines 674-682: a report without error is saved.       *)
(* save_analysis_report stamps the analysis and writes the document; a     *)
(* failing write raises out of the script.                                 *)
(***************************************************************************)
SaveReport ==
    /\ pc = "analyzed"
    /\ "error" \notin DOMAIN analysis
    /\ \E written \in BOOLEAN :
         /\ analysis' = [analysis EXCEPT !.analysis_date = clock]
         /\ clock' = clock + 1
         /\ IF written
            THEN /\ files' = [files EXCEPT
                                 !.detour_opportunities = <<clean_output(analysis, clock)>>]
                 /\ pc' = "saved"
            ELSE /\ files' = files
                 /\ pc' = "crashed"
    /\ UNCHANGED <<geojson_file, sample_distance_m, detour_radius_m, coordinates,
                   sampled_coords, all_detours, route_segments, i, responses, queries,
                   result, previous, replay, user_needs,
                   chat, reroute, detour_route>>

(***************************************************************************)
(* analyze_route_for_amenities, lines 391-417, after analyze_route         *)
(* returned: filter, save both documents, build the answer.  Any exception *)
(* is turned into a failure by the handler of lines 416-417.               *)
(***************************************************************************)
Failure(error) == [success |-> FALSE, error |-> error]

AmenitiesAnswer(report, filtered_analysis) ==
    IF "total_relevant_amenities" \notin DOMAIN filtered_analysis
    THEN Failure("'total_relevant_amenities'")
    ELSE [success |-> TRUE,
          analysis |-> filtered_analysis,
          full_report_file |-> "detour_opportunities.json",
          summary |-> [total_amenities |-> report.detour_summary.amenity_detours,
                       relevant_amenities |-> filtered_analysis.total_relevant_amenities,
                       total_ways |-> report.detour_summary.way_detours,
                       route_distance_km |-> report.route_info.route_distance_km]]

AmenitiesReturn ==
    /\ pc = "analyzed"
    /\ IF "error" \in DOMAIN analysis
       THEN /\ result' = Failure(analysis.error)
            /\ UNCHANGED <<analysis, files, clock>>
       ELSE \E report_written \in BOOLEAN, filter_written \in BOOLEAN :
              LET now == clock
                  stamped == [analysis EXCEPT !.analysis_date = now]
                  \* the filter ran before the stamp, on the same object
                  filtered_analysis ==
                      IF "sampling_points" \notin DOMAIN analysis THEN stamped
                      ELSE filter_and_summarize_amenities(analysis)
              IN  /\ analysis' = stamped
                  /\ clock' = clock + 1
                  /\ IF ~report_written
                     THEN /\ files' = files
                          /\ result' = Failure("write failed")
                     ELSE IF ~filter_written
                     THEN /\ files' = [files EXCEPT
                                  !.detour_opportunities = <<clean_output(analysis, now)>>]
                          /\ result' = Failure("write failed")
                     ELSE /\ files' = [files EXCEPT
                                  !.detour_opportunities = <<clean_output(analysis, now)>>,
                                  !.detour_opportunities_filter = <<filtered_analysis>>]
                          /\ result' = AmenitiesAnswer(stamped, filtered_analysis)
    /\ pc' = "returned"
    /\ UNCHANGED <<geojson_file, sample_distance_m, detour_radius_m, coordinates,
                   sampled_coords, all_detours, route_segments, i, responses, queries,
                   previous, replay, user_needs,
                   chat, reroute, detour_route>>

\* analyze_route raised inside the try block of analyze_route_for_amenities.
AmenitiesExcept ==
    /\ pc = "raised"
    /\ result' = Failure("exception")
    /\ pc' = "returned"
    /\ UNCHANGED <<geojson_file, sample_distance_m, detour_radius_m, coordinates,
                   sampled_coords, all_detours, route_segments, i, responses, queries,
                   analysis, files, previous, replay, clock, user_needs,
                   chat, reroute, detour_route>>

Next == AnalyzeRoute \/ Discover \/ SaveReport \/ AmenitiesReturn \/ AmenitiesExcept

Spec == Init /\ [][Next]_vars

(***************************************************************************)
(* SpecRerun: analyze_route is called again on the same agent with the     *)
(* same file and arguments, and the service answers each sample point as   *)
(* it did in the first run.                                                *)
(***************************************************************************)
Returned == "route_info" \in DOMAIN analysis \/ "error" \in DOMAIN analysis

Rerun ==
    /\ pc \in {"analyzed", "saved"}
    /\ Returned
    /\ previous = <<>>
    /\ previous' = Append(previous, analysis)
    /\ replay' = IF replay = <<>> THEN responses ELSE replay
    /\ Enter(geojson_file, sample_distance_m, detour_radius_m)
    /\ UNCHANGED <<files, result, clock, user_needs,
                   chat, reroute, detour_route>>

NextRerun == Next \/ Rerun

SpecRerun == Init /\ [][NextRerun]_vars

(***************************************************************************)
(* SpecSample: the sampler on its own, over every route of up to           *)
(* MaxSampleLen coordinates and every spacing.                             *)
(***************************************************************************)
InitSample ==
    /\ pc = "sample_call"
    /\ coordinates \in SeqsOf(Coordinates, 0, MaxSampleLen)
    /\ sample_distance_m \in SampleDistances
    /\ sampled_coords = <<>>
    /\ geojson_file = NoGeometryFile
    /\ detour_radius_m = 0
    /\ all_detours = <<>>
    /\ route_segments = <<>>
    /\ i = 0
    /\ responses = <<>>
    /\ queries = <<>>
    /\ analysis = NoAnalysis
    /\ files = NoFiles
    /\ result = NoResult
    /\ previous = <<>>
    /\ replay = <<>>
    /\ clock = 1
    /\ user_needs = <<>>
    /\ chat = NoChat
    /\ reroute = NoReroute
    /\ detour_route = NoDetour

SampleCall ==
    /\ pc = "sample_call"
    /\ sampled_coords' = sample_route_coordinates(coordinates, sample_distance_m)
    /\ pc' = "sampled"
    /\ UNCHANGED <<geojson_file, sample_distance_m, detour_radius_m, coordinates,
                   all_detours, route_segments, i, responses, queries, analysis,
                   files, result, previous, replay, clock, user_needs,
                   chat, reroute, detour_route>>

NextSample == SampleCall

SpecSample == InitSample /\ [][NextSample]_vars

(***************************************************************************)
(* SpecFilter: the two filters of the orchestrator on their own, over      *)
(* saved documents (which hold sampling_points) and over what              *)
(* analyze_route returns (which does not).                                 *)
(***************************************************************************)
ListedValues == {"cafe", "Cafe", "restaurant", "bench"}
ListedDistances == {150, 200, 250, 251}

\* An entry of detours.amenities as save_analysis_report writes it.
ListedAmenity(value, named, distance) ==
    [id |-> 1,
     name |-> IF named THEN <<"Joe">> ELSE <<"Unnamed ", "amenity", "=", value>>,
     type |-> <<"amenity", "=", value>>,
     category |-> "amenity",
     brand |-> "",
     opening_hours |-> "",
     distance_from_route_m |-> distance,
     location |-> [lat |-> 0, lon |-> Lon0],
     osm_link |-> <<"https://openstreetmap.org/node/", 1>>]

ListedAmenities ==
    {ListedAmenity(value, named, distance) :
         value \in ListedValues, named \in BOOLEAN, distance \in ListedDistances}

ListedRouteInfo ==
    [total_coordinates |-> 2, sampled_points |-> 2, route_distance_km |-> 0,
     start_coordinate |-> <<0, Lon0>>, end_coordinate |-> <<1, Lon0>>]

SavedDocument(points) ==
    [route_info |-> ListedRouteInfo,
     analysis_date |-> 1,
     detour_summary |-> [total_detours |-> 0, amenity_detours |-> 0, way_detours |-> 0],
     sampling_points |-> points]

SavedDocuments ==
    {SavedDocument(<< [point_id |-> 2,
                       coordinate |-> [lat |-> 1, lon |-> Lon0],
                       detour_count |-> Len(amenities),
                       detours |-> [amenities |-> amenities, ways |-> <<>>]] >>) :
         amenities \in {listed \in SeqsOf(ListedAmenities, 0, MaxListed) :
                            \A a, b \in 1..Len(listed) : listed[a] = listed[b] => a = b}}
      \cup {SavedDocument(<< [point_id |-> 2, coordinate |-> [lat |-> 1, lon |-> Lon0]] >>)}

\* Documents of several sampling points.  Each point lists the amenities of
\* one stop; the same stop under two points lists the same amenity twice,
\* as an amenity within the radius of two sample points is listed.
StopAmenity(id, value, named) ==
    [id |-> id,
     name |-> IF named THEN <<"Joe">> ELSE <<"Unnamed ", "amenity", "=", value>>,
     type |-> <<"amenity", "=", value>>,
     category |-> "amenity",
     brand |-> "",
     opening_hours |-> "",
     distance_from_route_m |-> 100,
     location |-> [lat |-> 0, lon |-> Lon0],
     osm_link |-> <<"https://openstreetmap.org/node/", id>>]

CafeStop == <<StopAmenity(1, "cafe", TRUE)>>
ParkingStop == <<StopAmenity(2, "bicycle_parking", FALSE), StopAmenity(3, "toilets", FALSE)>>
BenchStop == <<StopAmenity(4, "bench", FALSE)>>

Stops == {CafeStop, ParkingStop, BenchStop}

SamplingPoint(k, amenities) ==
    [point_id |-> k,
     coordinate |-> [lat |-> k, lon |-> Lon0],
     detour_count |-> Len(amenities),
     detours |-> [amenities |-> amenities, ways |-> <<>>]]

RouteDocuments ==
    {SavedDocument([k \in 1..Len(stops) |-> SamplingPoint(k, stops[k])]) :
         stops \in SeqsOf(Stops, 2, MaxPoints)}

\* What analyze_route returns: a report of one sample point, or the error.
AnalyzerReports ==
    LET point == <<0, Lon0>>
        detours == DetourOpportunities(0, Lon0, AmenitiesFound, WaysFound)
        segment == [segment_id |-> 1, coordinate |-> point,
                    detour_count |-> Len(detours), detours |-> detours]
    IN  {Report(CollectionFile, <<point>>, <<point>>, <<segment>>, detours),
         Report(CollectionFile, <<point>>, <<point>>,
                <<[segment EXCEPT !.detour_count = 0, !.detours = <<>>]>>, <<>>),
         [error |-> "Could not load route coordinates"]}

NeedLists == {<<>>, <<"coffee">>, <<"COFFEE">>, <<"park">>, <<"unheard">>}

InitFilter ==
    /\ pc = "filter_call"
    /\ analysis \in SavedDocuments \cup RouteDocuments \cup AnalyzerReports
    /\ user_needs \in NeedLists
    /\ chat = NoChat
    /\ reroute = NoReroute
    /\ detour_route = NoDetour
    /\ result = NoResult
    /\ geojson_file = NoGeometryFile
    /\ sample_distance_m = 0
    /\ detour_radius_m = 0
    /\ coordinates = <<>>
    /\ sampled_coords = <<>>
    /\ all_detours = <<>>
    /\ route_segments = <<>>
    /\ i = 0
    /\ responses = <<>>
    /\ queries = <<>>
    /\ files = NoFiles
    /\ previous = <<>>
    /\ replay = <<>>
    /\ clock = 1

FilterGeneral ==
    /\ pc = "filter_call"
    /\ result' = filter_and_summarize_amenities(analysis)
    /\ pc' = "filtered_general"
    /\ UNCHANGED <<geojson_file, sample_distance_m, detour_radius_m, coordinates,
                   sampled_coords, all_detours, route_segments, i, responses, queries,
                   analysis, files, previous, replay, clock, user_needs,
                   chat, reroute, detour_route>>

FilterByNeeds ==
    /\ pc = "filter_call"
    /\ result' = filter_amenities_by_user_needs(analysis, user_needs)
    /\ pc' = "filtered_needs"
    /\ UNCHANGED <<geojson_file, sample_distance_m, detour_radius_m, coordinates,
                   sampled_coords, all_detours, route_segments, i, responses, queries,
                   analysis, files, previous, replay, clock, user_needs,
                   chat, reroute, detour_route>>

NextFilter == FilterGeneral \/ FilterByNeeds

SpecFilter == InitFilter /\ [][NextFilter]_vars

(***************************************************************************)
(* SpecExtract: find_detour_opportunities at one point, over what the      *)
(* service may return there: a node or an area with any tags in any order, *)
(* and lists of features some of which lack coordinates or nodes.          *)
(***************************************************************************)
TagLists(pairs, longest) ==
    {tags \in SeqsOf(pairs, 0, longest) :
         \A j, k \in 1..Len(tags) : tags[j][1] = tags[k][1] => j = k}

NodeTagPairs ==
    {<<"amenity", "cafe">>, <<"shop", "bakery">>, <<"tourism", "viewpoint">>,
     <<"leisure", "park">>, <<"name", "Joe">>}

WayTagPairs ==
    {<<"tourism", "viewpoint">>, <<"leisure", "park">>, <<"natural", "peak">>,
     <<"historic", "castle">>, <<"amenity", "cafe">>, <<"shop", "bakery">>}

TaggedNodes == {[id |-> 4, lat |-> 1, lon |-> Lon0, tags |-> tags] :
                    tags \in TagLists(NodeTagPairs, MaxTags)}

TaggedWays == {[id |-> 4, nodes |-> <<NodeRef(0), NodeRef(2)>>, tags |-> tags] :
                   tags \in TagLists(WayTagPairs, MaxTags)}

LonlessNode ==
    [id |-> 5, lat |-> 1, lon |-> None, tags |-> << <<"shop", "bakery">> >>]
ParkNode ==
    [id |-> 6, lat |-> 2, lon |-> Lon0, tags |-> << <<"leisure", "park">> >>]
StubArea ==
    [id |-> 2, nodes |-> <<NodeRef(1), NodeRef(None)>>,
     tags |-> << <<"leisure", "park">> >>]
EmptyArea == [id |-> 3, nodes |-> <<>>, tags |-> << <<"natural", "peak">> >>]
EmptyWay == [id |-> 9, nodes |-> <<>>, tags |-> << <<"highway", "track">> >>]

Answer(nodes, ways) == [failed |-> FALSE, nodes |-> nodes, ways |-> ways]

ExtractOutcomes ==
    {[amenity |-> Answer(<<node>>, <<>>), way |-> NoFeatures] : node \in TaggedNodes}
      \cup {[amenity |-> Answer(<<>>, <<way>>), way |-> NoFeatures] : way \in TaggedWays}
      \cup {[amenity |-> Answer(nodes, <<>>), way |-> NoFeatures] :
                nodes \in SeqsOf({CafeNode, BrokenNode, LonlessNode, ParkNode},
                                 0, MaxFeatures)}
      \cup {[amenity |-> Answer(<<>>, ways), way |-> NoFeatures] :
                ways \in SeqsOf({ParkWay, StubArea, EmptyArea}, 0, MaxFeatures)}
      \cup {[amenity |-> NoFeatures, way |-> Answer(<<>>, ways)] :
                ways \in SeqsOf({CycleWay, StubWay, EmptyWay}, 0, MaxFeatures)}
      \cup {[amenity |-> AmenitiesFound, way |-> WaysFound]}

InitExtract ==
    /\ pc = "discovery_call"
    /\ sampled_coords \in {<<point>> : point \in Coordinates}
    /\ detour_radius_m \in DetourRadii
    /\ responses \in {<<outcome>> : outcome \in ExtractOutcomes}
    /\ all_detours = <<>>
    /\ queries = <<>>
    /\ geojson_file = NoGeometryFile
    /\ sample_distance_m = 0
    /\ coordinates = <<>>
    /\ route_segments = <<>>
    /\ i = 0
    /\ analysis = NoAnalysis
    /\ files = NoFiles
    /\ result = NoResult
    /\ previous = <<>>
    /\ replay = <<>>
    /\ clock = 1
    /\ user_needs = <<>>
    /\ chat = NoChat
    /\ reroute = NoReroute
    /\ detour_route = NoDetour

DiscoveryCall ==
    /\ pc = "discovery_call"
    /\ LET found == find_detour_opportunities(sampled_coords[1][1], sampled_coords[1][2],
                                              detour_radius_m,
                                              responses[1].amenity, responses[1].way)
       IN  /\ all_detours' = found.detours
           /\ queries' = found.queries
           /\ pc' = IF found.raised THEN "raised" ELSE "discovered"
    /\ UNCHANGED <<geojson_file, sample_distance_m, detour_radius_m, coordinates,
                   sampled_coords, route_segments, i, responses, analysis, files,
                   result, previous, replay, clock, user_needs,
                   chat, reroute, detour_route>>

NextExtract == DiscoveryCall

SpecExtract == InitExtract /\ [][NextExtract]_vars

(***************************************************************************)
(* SpecChat: RouteOrchestrator.chat, called by main on one shared          *)
(* conversation_history.  A content is None (<<>>) or a text (<<text>>);   *)
(* a message is the dict the code builds, with the keys it gives it.       *)
(***************************************************************************)
max_tool_rounds == 5

SystemMessage == [role |-> "system", content |-> <<"system_prompt">>]
UserMessage == [role |-> "user", content |-> <<"user_message">>]

Contents == {<<>>, <<"text">>}

known_functions ==
    {"create_route", "analyze_route_for_amenities", "analyze_route_for_specific_amenities",
     "create_route_with_waypoints", "save_route_to_file", "find_detour_point",
     "create_detour_route"}

\* The dispatch of handle_function_call; what a known function returns is
\* held as its success.
handle_function_call(function_name, arguments) ==
    IF function_name \in known_functions
    THEN [success |-> TRUE, error |-> <<>>]
    ELSE [success |-> FALSE, error |-> <<"Unknown function: ", function_name>>]

\* json.loads of the arguments of a tool call: "{}" parses, "{" does not.
json_loads_raises(arguments) == arguments # "{}"

\* json.dumps of a result: its text.
json_dumps(value) == <<"json", value.success, value.error>>

\* The k-th tool call of the model's answer in one round of one call: the
\* first names a function of the dispatcher, the others one it does not know.
ToolCall(call, round, k, arguments) ==
    [id |-> <<"call", call, round, k>>,
     name |-> IF k = 1 THEN "find_detour_point" ELSE "no_such_function",
     arguments |-> arguments]

NoResponse == [content |-> <<>>, tool_calls |-> <<>>]

\* What the model may answer: a content and up to MaxToolCalls tool calls,
\* or a tool call whose arguments are no JSON.
ModelResponses(call, round) ==
    {[content |-> content,
      tool_calls |-> [k \in 1..n |-> ToolCall(call, round, k, "{}")]] :
         content \in Contents, n \in 0..MaxToolCalls}
      \cup {[content |-> <<>>, tool_calls |-> <<ToolCall(call, round, 1, "{")>>]}

\* Lines 869-882: the assistant message that carries the tool calls.
ToolCallsMessage(response) ==
    [role |-> "assistant",
     content |-> response.content,
     tool_calls |-> [k \in 1..Len(response.tool_calls) |->
                         [id |-> response.tool_calls[k].id,
                          type |-> "function",
                          function |-> [name |-> response.tool_calls[k].name,
                                        arguments |-> response.tool_calls[k].arguments]]]]

\* Lines 855-866 and 885-890: one tool message per tool call, in order.
ToolMessages(response) ==
    [k \in 1..Len(response.tool_calls) |->
         [role |-> "tool",
          tool_call_id |-> response.tool_calls[k].id,
          content |-> json_dumps(handle_function_call(response.tool_calls[k].name,
                                                      response.tool_calls[k].arguments))]]

ReplyMessage(assistant_reply) == [role |-> "assistant", content |-> assistant_reply]

Fallback ==
    <<"I've completed the available actions but reached the maximum number of tool calls.">>

\* The loop test of line 837 with <= for <.
LoopContinuesInclusive(current_round) == current_round <= max_tool_rounds

\* Line 837.
LoopContinues(current_round) == current_round < max_tool_rounds

\* Line 907 without the system prompt: the length of the history alone.
NewMessagesFromHistory(conversation_history) == Len(conversation_history)

\* Line 907: the index from which messages holds what this call added.
NewMessagesFrom(conversation_history) == Len(<<SystemMessage>> \o conversation_history)

\* main, line 937: an empty history, before the first call.
InitChat ==
    /\ pc = "chat_call"
    /\ chat = [conversation_history |-> <<>>, history_before |-> <<>>, call |-> 1,
               messages |-> <<>>, current_round |-> 0, response |-> NoResponse,
               assistant_reply |-> <<>>, returned |-> <<>>, model_calls |-> 0,
               rounds |-> <<>>]
    /\ reroute = NoReroute
    /\ detour_route = NoDetour
    /\ AnalyzerIdle

\* Lines 825-836: the user message appended to the caller's list, messages built.
ChatCall ==
    /\ pc = "chat_call"
    /\ LET history == Append(chat.conversation_history, UserMessage)
       IN  chat' = [chat EXCEPT !.conversation_history = history,
                                !.messages = <<SystemMessage>> \o history,
                                !.current_round = 0]
    /\ pc' = "chat_loop"
    /\ UNCHANGED <<analyzer_vars, reroute, detour_route>>

\* Lines 839-845 raising: the except of lines 915-918 returns the error text.
ModelRaises ==
    /\ pc = "chat_loop"
    /\ LoopContinues(chat.current_round)
    /\ chat' = [chat EXCEPT !.model_calls = @ + 1,
                            !.returned = <<"Error in orchestrator: ", "APIError">>]
    /\ pc' = "chat_error"
    /\ UNCHANGED <<analyzer_vars, reroute, detour_route>>

\* Lines 892-895: an answer without tool calls ends the loop.
ModelAnswers ==
    /\ pc = "chat_loop"
    /\ LoopContinues(chat.current_round)
    /\ \E response \in ModelResponses(chat.call, chat.current_round + 1) :
           /\ response.tool_calls = <<>>
           /\ chat' = [chat EXCEPT !.model_calls = @ + 1,
                                   !.response = response,
                                   !.assistant_reply = response.content]
    /\ pc' = "chat_after_loop"
    /\ UNCHANGED <<analyzer_vars, reroute, detour_route>>

\* Lines 848-890: one round of tool calls; arguments that do not parse raise
\* before anything is appended.
ModelCallsTools ==
    /\ pc = "chat_loop"
    /\ LoopContinues(chat.current_round)
    /\ \E response \in ModelResponses(chat.call, chat.current_round + 1) :
           /\ response.tool_calls # <<>>
           /\ IF \E k \in 1..Len(response.tool_calls) :
                     json_loads_raises(response.tool_calls[k].arguments)
              THEN /\ chat' = [chat EXCEPT !.model_calls = @ + 1,
                                           !.response = response,
                                           !.current_round = @ + 1,
                                           !.returned = <<"Error in orchestrator: ",
                                                          "JSONDecodeError">>]
                   /\ pc' = "chat_error"
              ELSE /\ chat' = [chat EXCEPT !.model_calls = @ + 1,
                                           !.response = response,
                                           !.current_round = @ + 1,
                                           !.rounds = Append(@, response),
                                           !.messages = @ \o <<ToolCallsMessage(response)>>
                                                          \o ToolMessages(response)]
                   /\ pc' = "chat_loop"
    /\ UNCHANGED <<analyzer_vars, reroute, detour_route>>

\* Lines 897-913: after the loop, by break or by the round limit.
ChatReturn ==
    /\ \/ pc = "chat_after_loop"
       \/ pc = "chat_loop" /\ ~LoopContinues(chat.current_round)
    /\ LET assistant_reply ==
               IF chat.current_round >= max_tool_rounds
               THEN IF chat.response.content # <<>> THEN chat.response.content
                    ELSE Fallback
               ELSE chat.assistant_reply
           new_messages ==
               SubSeq(chat.messages, NewMessagesFrom(chat.conversation_history) + 1,
                      Len(chat.messages))
       IN  chat' = [chat EXCEPT !.assistant_reply = assistant_reply,
                                !.conversation_history =
                                    (@ \o new_messages) \o <<ReplyMessage(assistant_reply)>>,
                                !.returned = assistant_reply]
    /\ pc' = "chat_returned"
    /\ UNCHANGED <<analyzer_vars, reroute, detour_route>>

\* main, lines 939-951: the next input is answered on the same list.
ChatAgain ==
    /\ pc \in {"chat_returned", "chat_error"}
    /\ chat.call = 1
    /\ Len(chat.conversation_history) <= MaxShared
    /\ chat' = [conversation_history |-> chat.conversation_history,
                history_before |-> chat.conversation_history, call |-> 2,
                messages |-> <<>>, current_round |-> 0, response |-> NoResponse,
                assistant_reply |-> <<>>, returned |-> <<>>, model_calls |-> 0,
                rounds |-> <<>>]
    /\ pc' = "chat_call"
    /\ UNCHANGED <<analyzer_vars, reroute, detour_route>>

NextChat ==
    \/ ChatCall
    \/ ModelRaises
    \/ ModelAnswers
    \/ ModelCallsTools
    \/ ChatReturn
    \/ ChatAgain

SpecChat == InitChat /\ [][NextChat]_vars

\* A call that was entered keeps running: every step of chat is taken in turn.
SpecChatFair ==
    /\ SpecChat
    /\ WF_vars(ChatCall)
    /\ WF_vars(ModelRaises \/ ModelAnswers \/ ModelCallsTools)
    /\ WF_vars(ChatReturn)

(***************************************************************************)
(* SpecReroute: PathAgent.smart_reroute.  A routing answer is held as      *)
(* whether it has routes, which request gave it (0 the initial one, k the  *)
(* k-th reroute request) and how many highway segments                     *)
(* analyze_route_for_highways detects on its geometry.                     *)
(***************************************************************************)
NoRoute == [routes |-> FALSE, id |-> 0, highways |-> 0]

RoutingAnswers(id) ==
    {NoRoute} \cup {[routes |-> TRUE, id |-> id, highways |-> n] : n \in 0..MaxHighways}

\* The number of highway segments detected on a route's geometry.
analyze_route_for_highways(route) == route.highways

\* utils.osrm_route_to_geojson: the GeoJSON feature of a routing answer.
osrm_route_to_geojson(route) == <<"Feature", "LineString", route.id>>

\* _save_route_as_geojson: writes the file when the route has routes; a
\* failure of the conversion or of the write is printed and leaves the file.
save_route_as_geojson(route, file, written) ==
    IF route.routes /\ written THEN <<osrm_route_to_geojson(route)>> ELSE file

\* "if save_filename: self._save_route_as_geojson(...)".
SaveIfNamed(save_filename, route, file, written) ==
    IF save_filename THEN save_route_as_geojson(route, file, written) ELSE file

\* Line 194: highways is the list of the route compared with, which line 203
\* replaces by that of the last attempt.
Improves(new_highways, highways) == new_highways < highways

InitReroute ==
    /\ pc = "reroute_call"
    /\ reroute \in {[max_attempts |-> max_attempts, save_filename |-> save_filename,
                     route |-> NoRoute, highways |-> 0, initial_highways |-> 0,
                     attempt |-> 0, requests |-> 0, returned |-> NoRoute,
                     file |-> <<>>] :
                        max_attempts \in 1..MaxAttempts, save_filename \in BOOLEAN}
    /\ chat = NoChat
    /\ detour_route = NoDetour
    /\ AnalyzerIdle

\* Lines 150-174: the initial route; none, or one without highways, returns.
RerouteCall ==
    /\ pc = "reroute_call"
    /\ \E route \in RoutingAnswers(0), written \in BOOLEAN :
           LET highways == analyze_route_for_highways(route)
           IN  IF ~route.routes
               THEN /\ reroute' = [reroute EXCEPT !.route = route, !.returned = NoRoute]
                    /\ pc' = "reroute_returned"
               ELSE IF highways = 0
               THEN /\ reroute' = [reroute EXCEPT
                                       !.route = route,
                                       !.file = SaveIfNamed(reroute.save_filename, route,
                                                            @, written),
                                       !.returned = route]
                    /\ pc' = "reroute_returned"
               ELSE /\ reroute' = [reroute EXCEPT !.route = route,
                                                  !.highways = highways,
                                                  !.initial_highways = highways]
                    /\ pc' = "reroute_loop"
    /\ UNCHANGED <<analyzer_vars, chat, detour_route>>

\* Lines 181-203: one pass of the loop, one reroute request.
RerouteAttempt ==
    /\ pc = "reroute_loop"
    /\ reroute.attempt < reroute.max_attempts
    /\ \E new_route \in RoutingAnswers(reroute.attempt + 1), written \in BOOLEAN :
           LET new_highways == analyze_route_for_highways(new_route)
           IN  IF ~new_route.routes
               THEN /\ reroute' = [reroute EXCEPT !.attempt = @ + 1, !.requests = @ + 1]
                    /\ pc' = "reroute_loop"
               ELSE IF Improves(new_highways, reroute.highways)
               THEN /\ reroute' = [reroute EXCEPT
                                       !.requests = @ + 1,
                                       !.file = SaveIfNamed(reroute.save_filename,
                                                            new_route, @, written),
                                       !.returned = new_route]
                    /\ pc' = "reroute_returned"
               ELSE /\ reroute' = [reroute EXCEPT !.attempt = @ + 1,
                                                  !.requests = @ + 1,
                                                  !.highways = new_highways]
                    /\ pc' = "reroute_loop"
    /\ UNCHANGED <<analyzer_vars, chat, detour_route>>

\* Lines 205-211: the attempts are used up, the initial route is returned.
RerouteGiveUp ==
    /\ pc = "reroute_loop"
    /\ ~(reroute.attempt < reroute.max_attempts)
    /\ \E written \in BOOLEAN :
           reroute' = [reroute EXCEPT
                           !.file = SaveIfNamed(reroute.save_filename, reroute.route,
                                                @, written),
                           !.returned = reroute.route]
    /\ pc' = "reroute_returned"
    /\ UNCHANGED <<analyzer_vars, chat, detour_route>>

NextReroute == RerouteCall \/ RerouteAttempt \/ RerouteGiveUp

SpecReroute == InitReroute /\ [][NextReroute]_vars

(***************************************************************************)
(* SpecDetourRoute: RouteOrchestrator.create_detour_route.  A file of the  *)
(* working directory is absent, old (there before the call) or new         *)
(* (written by the call).  A leg gives no route, or a route that           *)
(* smart_reroute or get_bike_friendly_route saved, or one it failed to     *)
(* save.                                                                   *)
(***************************************************************************)
LegOutcomes == {"no_route", "saved", "save_failed"}

\* What a leg returns and what it leaves of its file.
LegRoute(outcome, id) ==
    IF outcome = "no_route" THEN NoRoute ELSE [routes |-> TRUE, id |-> id, highways |-> 0]

LegFile(outcome, file) == IF outcome = "saved" THEN "new" ELSE file

\* Lines 771-777: both removals in one try; the first that raises ends it.
remove_temp_files(disk) ==
    IF disk.route1_temp = "absent" THEN disk
    ELSE [disk EXCEPT !.route1_temp = "absent", !.route2_temp = "absent"]

InitDetourRoute ==
    /\ pc = "detour_call"
    /\ detour_route \in {[transport_mode |-> transport_mode,
                          disk |-> [route1_temp |-> route1_temp,
                                    route2_temp |-> route2_temp,
                                    route_json |-> route_json],
                          route1_osrm |-> NoRoute, route2_osrm |-> NoRoute,
                          returned |-> [success |-> FALSE, error |-> <<>>]] :
                             transport_mode \in {"bicycle", "car"},
                             route1_temp \in {"absent", "old"},
                             route2_temp \in {"absent", "old"},
                             route_json \in {"absent", "old"}}
    /\ chat = NoChat
    /\ reroute = NoReroute
    /\ AnalyzerIdle

\* Lines 697-701: the leg to the detour point.
DetourFirstLeg ==
    /\ pc = "detour_call"
    /\ \E outcome \in LegOutcomes :
           detour_route' = [detour_route EXCEPT
                                !.route1_osrm = LegRoute(outcome, 1),
                                !.disk.route1_temp = LegFile(outcome, @)]
    /\ pc' = "detour_first_leg"
    /\ UNCHANGED <<analyzer_vars, chat, reroute>>

\* Lines 703-707: the leg from the detour point, routed whatever the first gave.
DetourSecondLeg ==
    /\ pc = "detour_first_leg"
    /\ \E outcome \in LegOutcomes :
           detour_route' = [detour_route EXCEPT
                                !.route2_osrm = LegRoute(outcome, 2),
                                !.disk.route2_temp = LegFile(outcome, @)]
    /\ pc' = "detour_second_leg"
    /\ UNCHANGED <<analyzer_vars, chat, reroute>>

\* Lines 709-796: the checks, the combined route written, the cleanup.
DetourCombine ==
    /\ pc = "detour_second_leg"
    /\ \E written \in BOOLEAN :
           IF ~detour_route.route1_osrm.routes
           THEN detour_route' =
                    [detour_route EXCEPT
                         !.returned = [success |-> FALSE,
                                       error |-> <<"Failed to create route to detour point">>]]
           ELSE IF ~detour_route.route2_osrm.routes
           THEN detour_route' =
                    [detour_route EXCEPT
                         !.returned = [success |-> FALSE,
                                       error |-> <<"Failed to create route from detour point">>]]
           ELSE IF ~written
           THEN detour_route' =
                    [detour_route EXCEPT
                         !.returned = [success |-> FALSE, error |-> <<"OSError">>]]
           ELSE detour_route' =
                    [detour_route EXCEPT
                         !.disk = remove_temp_files([@ EXCEPT !.route_json = "new"]),
                         !.returned = [success |-> TRUE, error |-> <<>>]]
    /\ pc' = "detour_returned"
    /\ UNCHANGED <<analyzer_vars, chat, reroute>>

NextDetourRoute == DetourFirstLeg \/ DetourSecondLeg \/ DetourCombine

SpecDetourRoute == InitDetourRoute /\ [][NextDetourRoute]_vars

(***************************************************************************)
(* Properties of the sampler.                                              *)
(***************************************************************************)
\* C1: for every non-empty route and spacing the sample starts with the
\* route's first coordinate and ends with the route's last coordinate.
SamplingEndpointRetention ==
    (pc = "sampled" /\ coordinates # <<>>) =>
        /\ sampled_coords # <<>>
        /\ sampled_coords[1] = coordinates[1]
        /\ Last(sampled_coords) = Last(coordinates)

\* The route never moves backwards: latitudes are non-decreasing.
NeverBacktracks(coords) ==
    \A k \in 1..(Len(coords) - 1) : coords[k][1] <= coords[k + 1][1]

\* C2 as stated: for any route, a larger spacing never yields more points.
SamplingMonotonicity ==
    pc = "sampled" =>
        \A s2 \in SampleDistances :
            sample_distance_m <= s2 =>
                Len(sample_route_coordinates(coordinates, s2)) <= Len(sampled_coords)

\* C2 amended: on a route that never moves backwards along its line, a
\* larger spacing never yields more sampled points.
SamplingMonotonicityForward ==
    (pc = "sampled" /\ NeverBacktracks(coordinates)) =>
        \A s2 \in SampleDistances :
            sample_distance_m <= s2 =>
                Len(sample_route_coordinates(coordinates, s2)) <= Len(sampled_coords)

\* A forward route of three distinct samples that a larger spacing thins out.
SamplingMonotonicityForwardWitness ==
    /\ pc = "sampled"
    /\ NeverBacktracks(coordinates)
    /\ Len(coordinates) >= 3
    /\ Len(sampled_coords) >= 3
    /\ \E s2 \in SampleDistances :
           /\ sample_distance_m < s2
           /\ Len(sample_route_coordinates(coordinates, s2)) < Len(sampled_coords)
(***************************************************************************)
(* Properties of analyze_route and its callers.                            *)
(***************************************************************************)
Reported == "route_info" \in DOMAIN analysis

Retained == analysis.all_detours.amenities \o analysis.all_detours.ways

KeysOf(detours) == {DetourKey(detours[k]) : k \in 1..Len(detours)}

FirstWithKey(detours, key) ==
    detours[CHOOSE k \in 1..Len(detours) :
                /\ DetourKey(detours[k]) = key
                /\ \A j \in 1..(k - 1) : DetourKey(detours[j]) # key]

\* C3: after deduplication no two retained opportunities share a key, every
\* key found at some sample point is retained exactly once, and the one
\* retained is the first found in sample-point order.
DeduplicationKeepsFirst ==
    Reported =>
        /\ \A j, k \in 1..Len(Retained) :
               DetourKey(Retained[j]) = DetourKey(Retained[k]) => j = k
        /\ KeysOf(Retained) = KeysOf(all_detours)
        /\ all_detours = Flatten([k \in 1..Len(route_segments) |-> route_segments[k].detours])
        /\ \A k \in 1..Len(Retained) :
               Retained[k] = FirstWithKey(all_detours, DetourKey(Retained[k]))

\* One entity found at two sample points, at different distances.
DeduplicationKeepsFirstWitness ==
    /\ Reported
    /\ \E a, b \in 1..Len(route_segments) :
           /\ a < b
           /\ \E j \in 1..Len(route_segments[a].detours),
                 k \in 1..Len(route_segments[b].detours) :
                  LET first == route_segments[a].detours[j]
                      later == route_segments[b].detours[k]
                  IN  /\ DetourKey(first) = DetourKey(later)
                      /\ DetourKey(first)[1] = "way"
                      /\ first.detour_distance_m # later.detour_distance_m
                      /\ \E r \in 1..Len(Retained) : Retained[r] = first
    /\ Len(Retained) < Len(all_detours)

NoFeaturesAnywhere ==
    \A k \in 1..Len(responses) :
        responses[k] = [amenity |-> NoFeatures, way |-> NoFeatures]

\* C4: when the service returns no feature at any sample point, the saved
\* report has total_detours 0 and one sampling_points entry per sampled
\* point, in sample order, each with detour_count 0.
NoDetoursReport ==
    (files.detour_opportunities # <<>> /\ NoFeaturesAnywhere) =>
        LET document == files.detour_opportunities[1]
        IN  /\ document.detour_summary.total_detours = 0
            /\ Len(document.sampling_points) = Len(sampled_coords)
            /\ \A k \in 1..Len(document.sampling_points) :
                   /\ document.sampling_points[k].point_id = k
                   /\ document.sampling_points[k].coordinate.lat = sampled_coords[k][1]
                   /\ document.sampling_points[k].detour_count = 0

Failing(outcome) == outcome.amenity.failed \/ outcome.way.failed

AsIfEmpty(outcome) ==
    IF Failing(outcome) THEN [amenity |-> NoFeatures, way |-> NoFeatures] ELSE outcome

WellFormedRoute == geojson_file \in LineStringFiles \cup {CollectionFile}

\* C5: a failed query at any set of sample points is not fatal: analyze_route
\* does not raise, there is a segment for every sampled point, a failing
\* point has no detours, and every point holds what it would hold had the
\* failing points returned no features.
QueryFailureNotFatal ==
    /\ (WellFormedRoute /\ pc # "idle") => pc # "raised"
    /\ Reported =>
           /\ Len(route_segments) = Len(sampled_coords)
           /\ Len(responses) = Len(sampled_coords)
           /\ analysis.route_segments = route_segments
           /\ \A k \in 1..Len(route_segments) :
                  LET segment == route_segments[k]
                      as_if == AsIfEmpty(responses[k])
                  IN  /\ Failing(responses[k]) =>
                             segment.detour_count = 0 /\ segment.detours = <<>>
                      /\ segment.coordinate = sampled_coords[k]
                      /\ segment.detours =
                             DetourOpportunities(sampled_coords[k][1], sampled_coords[k][2],
                                                 as_if.amenity, as_if.way)

\* A finished analysis with a failing point and a point that found detours.
QueryFailureNotFatalWitness ==
    /\ Reported
    /\ \E j, k \in 1..Len(responses) :
           /\ Failing(responses[j])
           /\ ~Failing(responses[k])
           /\ route_segments[k].detour_count > 0
    /\ \E k \in 1..Len(responses) : responses[k].amenity.failed
    /\ \E k \in 1..Len(responses) : ~responses[k].amenity.failed /\ responses[k].way.failed

\* C6: a missing, unparsable, geometry-less or non-LineString route file
\* ends in the error result: nothing is raised out of analyze_route and no
\* query is issued.
MalformedFileIsLoadError ==
    (geojson_file \in MalformedFiles /\ pc # "idle") =>
        /\ pc # "raised"
        /\ pc # "discover" => "error" \in DOMAIN analysis
        /\ queries = <<>>

\* C7: a route file of fewer than 2 coordinates ends in the error result,
\* with no sampling and no detour discovery.
ShortRouteIsError ==
    (geojson_file \in LineStringFiles /\ Len(geojson_file.coordinates) < 2 /\ pc # "idle") =>
        /\ pc # "discover" => "error" \in DOMAIN analysis
        /\ sampled_coords = <<>>
        /\ queries = <<>>

AmenitiesSucceeds ==
    (/\ pc = "returned"
     /\ Reported
     /\ files.detour_opportunities # <<>>
     /\ files.detour_opportunities_filter # <<>>) =>
        /\ result.success
        /\ "total_relevant_amenities" \in DOMAIN result.analysis
        /\ "key_amenity_locations" \in DOMAIN result.analysis

WithoutDate(report) ==
    IF "analysis_date" \in DOMAIN report
    THEN [report EXCEPT !.analysis_date = None]
    ELSE report

FilteredDocument ==
    /\ pc \in {"filtered_general", "filtered_needs"}
    /\ "sampling_points" \in DOMAIN analysis

\* The amenities a summary lists at one location, over all its groups.
KeptAt(location) ==
    Flatten([k \in 1..Len(location.amenity_summary) |-> location.amenity_summary[k][2]])

\* The amenities a summary lists.
Kept(summary) ==
    Flatten([k \in 1..Len(summary.key_amenity_locations) |->
                 KeptAt(summary.key_amenity_locations[k])])

\* The amenities the filtered document lists at its sampling points.
Listed ==
    Flatten([k \in 1..Len(analysis.sampling_points) |->
                 IF "detours" \in DOMAIN analysis.sampling_points[k]
                 THEN analysis.sampling_points[k].detours.amenities
                 ELSE <<>>])

IsKept(amenity, summary) ==
    \E k \in 1..Len(Kept(summary)) :
        /\ Kept(summary)[k].name = amenity.name
        /\ Kept(summary)[k].type = amenity.type
        /\ Kept(summary)[k].distance_m = amenity.distance_from_route_m

\* C11 as stated: with needs = ["coffee"] every amenity kept has a type
\* string containing "cafe"; with needs = [] the target categories are the
\* default set.
NeedsMapping ==
    (FilteredDocument /\ pc = "filtered_needs") =>
        /\ user_needs = <<"coffee">> =>
               \A k \in 1..Len(Kept(result)) : OccursIn("cafe", Kept(result)[k].type)
        /\ user_needs = <<>> => result.target_categories = default_categories

\* C11 amended: with needs = ["coffee"] every amenity kept has a type that
\* contains "cafe" once lowercased, and the target categories are exactly
\* {cafe}; with needs = [] the target categories are exactly the default set.
NeedsMappingLowercased ==
    (FilteredDocument /\ pc = "filtered_needs") =>
        /\ user_needs = <<"coffee">> =>
               /\ result.target_categories = {"cafe"}
               /\ \A k \in 1..Len(Kept(result)) :
                      OccursIn("cafe", Lower(Kept(result)[k].type))
        /\ user_needs = <<>> => result.target_categories = default_categories

\* A document listing a cafe and a restaurant, both named and near,
\* filtered for coffee: the cafe alone is kept.
NeedsMappingLowercasedWitness ==
    /\ FilteredDocument
    /\ pc = "filtered_needs"
    /\ user_needs = <<"coffee">>
    /\ Len(Listed) = 2
    /\ \E j, k \in 1..2 :
           /\ Listed[j].type[3] = "restaurant" /\ Listed[j].name = <<"Joe">>
           /\ Listed[j].distance_from_route_m = 150
           /\ Listed[k].type[3] \in {"cafe", "Cafe"}
    /\ Len(Kept(result)) = 1
    /\ result.total_relevant_amenities = 1

\* The same amenity at the route itself, alone in a document.
AtTheRoute(amenity) ==
    SavedDocument(<< [point_id |-> 1,
                      coordinate |-> [lat |-> 0, lon |-> Lon0],
                      detour_count |-> 1,
                      detours |-> [amenities |->
                                       <<[amenity EXCEPT !.distance_from_route_m = 0]>>,
                                   ways |-> <<>>]] >>)

\* C12: an amenity that qualifies but for its distance is dropped by the
\* general filter exactly when it is farther than 200 m, and by the needs
\* filter called with needs exactly when it is farther than 250 m; at 250 m
\* the first drops it and the second keeps it.  Read off documents of at
\* most three sampling points, whose locations are all returned.
DistanceExclusion ==
    (FilteredDocument /\ Len(analysis.sampling_points) <= 3) =>
        \A k \in 1..Len(Listed) :
            LET amenity == Listed[k]
                distance == amenity.distance_from_route_m
            IN  /\ (/\ pc = "filtered_general"
                    /\ Kept(filter_and_summarize_amenities(AtTheRoute(amenity))) # <<>>) =>
                       /\ IsKept(amenity, result) <=> ~(distance > 200)
                       /\ distance = 250 => ~IsKept(amenity, result)
                /\ (/\ pc = "filtered_needs"
                    /\ user_needs # <<>>
                    /\ Kept(filter_amenities_by_user_needs(AtTheRoute(amenity),
                                                          user_needs)) # <<>>) =>
                       /\ IsKept(amenity, result) <=> ~(distance > 250)
                       /\ distance = 250 => IsKept(amenity, result)

\* A cafe 250 m from the route and one 251 m from it, filtered for coffee:
\* the first is kept, the second is not, and the general filter keeps neither.
DistanceExclusionWitness ==
    /\ FilteredDocument
    /\ pc = "filtered_needs"
    /\ user_needs = <<"coffee">>
    /\ Len(Listed) = 2
    /\ Listed[1].type[3] = "cafe" /\ Listed[1].distance_from_route_m = 250
    /\ Listed[2].type[3] = "cafe" /\ Listed[2].distance_from_route_m = 251
    /\ IsKept(Listed[1], result)
    /\ ~IsKept(Listed[2], result)
    /\ Kept(filter_and_summarize_amenities(analysis)) = <<>>
    /\ Kept(filter_and_summarize_amenities(AtTheRoute(Listed[1]))) # <<>>

\* C13: a filter given a report without sampling_points returns the report
\* it was given, and does not raise.
NothingToFilter ==
    (pc \in {"filtered_general", "filtered_needs"}
         /\ "sampling_points" \notin DOMAIN analysis) =>
        /\ result = analysis
        /\ "raised" \notin DOMAIN result

\* The general filter handed the report of analyze_route, detours and all.
NothingToFilterWitness ==
    /\ pc = "filtered_general"
    /\ "route_segments" \in DOMAIN analysis
    /\ "sampling_points" \notin DOMAIN analysis
    /\ analysis.detour_summary.amenity_detours > 0
    /\ result = analysis

(***************************************************************************)
(* Properties of the extractors and of discovery at one point.             *)
(***************************************************************************)
Discovered == pc = "discovered"

FromNode(detour, node) ==
    /\ detour.type = "amenity"
    /\ detour.amenity.osm_link = <<"https://openstreetmap.org/node/", node.id>>

FromArea(detour, way) ==
    /\ detour.type = "amenity"
    /\ detour.amenity.osm_link = <<"https://openstreetmap.org/way/", way.id>>

Among(priority) == {priority[k] : k \in 1..Len(priority)}

\* The earliest key of the priority list that is among the keys.
FirstPresent(priority, keys) ==
    priority[CHOOSE k \in 1..Len(priority) :
                 /\ priority[k] \in keys
                 /\ \A j \in 1..(k - 1) : priority[j] \notin keys]

NodePriority == <<"amenity", "shop", "tourism">>

WayPriority == <<"tourism", "leisure", "natural", "historic", "amenity", "shop">>

\* C14: a node carrying one or more of amenity, shop, tourism, in any tag
\* order, gets as category the earliest of [amenity, shop, tourism] present.
NodeClassifiedByPriority ==
    Discovered =>
        \A d \in 1..Len(all_detours), n \in 1..Len(responses[1].amenity.nodes) :
            LET node == responses[1].amenity.nodes[n]
                keys == TagKeys(node.tags)
            IN  (FromNode(all_detours[d], node) /\ keys \cap Among(NodePriority) # {}) =>
                    all_detours[d].amenity.category = FirstPresent(NodePriority, keys)

\* The additional_info fields of each category.
CategoryFields(category) ==
    IF category = "leisure" THEN {"park_type", "access", "sport"}
    ELSE IF category = "natural" THEN {"elevation", "natural_type"}
    ELSE IF category = "tourism" THEN {"tourism_type", "wheelchair"}
    ELSE IF category = "historic" THEN {"historic_type", "heritage"}
    ELSE {}

\* C15: a way carrying one or more of the six category keys, in any tag
\* order, is classified by the earliest of [tourism, leisure, natural,
\* historic, amenity, shop] present, its type is that key=value, and its
\* additional_info holds the fields of that category and no other.
WayClassifiedByPriority ==
    Discovered =>
        \A d \in 1..Len(all_detours), w \in 1..Len(responses[1].amenity.ways) :
            LET way == responses[1].amenity.ways[w]
                keys == TagKeys(way.tags)
                amenity == all_detours[d].amenity
            IN  (FromArea(all_detours[d], way) /\ keys \cap Among(WayPriority) # {}) =>
                    /\ amenity.category = FirstPresent(WayPriority, keys)
                    /\ amenity.type = <<amenity.category, "=",
                                        TagGet(way.tags, amenity.category, "")>>
                    /\ {amenity.additional_info[k][1] :
                            k \in 1..Len(amenity.additional_info)}
                           = CategoryFields(amenity.category)

\* A way tagged leisure=park and then tourism=viewpoint, classified tourism.
WayClassifiedByPriorityWitness ==
    /\ Discovered
    /\ responses[1].amenity.ways # <<>>
    /\ responses[1].amenity.ways[1].tags
           = << <<"leisure", "park">>, <<"tourism", "viewpoint">> >>
    /\ Len(all_detours) = 1
    /\ all_detours[1].amenity.category = "tourism"
    /\ all_detours[1].amenity.type = <<"tourism", "=", "viewpoint">>
    /\ all_detours[1].amenity.additional_info
           = << <<"tourism_type", "viewpoint">>, <<"wheelchair", "">> >>

\* The keys the amenity query selects nodes by, and ways by (lines 138-147).
NodeQueryKeys == {"amenity", "shop", "tourism", "leisure", "natural", "historic"}
WayQueryKeys == {"tourism", "leisure", "natural", "historic"}

RecordNamesItsTag(amenity, tags) ==
    /\ amenity.category \in NodeQueryKeys
    /\ amenity.category \in TagKeys(tags)
    /\ amenity.type = <<amenity.category, "=", TagGet(tags, amenity.category, "")>>

\* C16: the record of every feature the amenity query selects has as
\* category one of the six keys, a key the feature carries, and as type
\* that key=value.
AmenityRecordCategory ==
    Discovered =>
        \A d \in 1..Len(all_detours) :
            /\ \A n \in 1..Len(responses[1].amenity.nodes) :
                   LET node == responses[1].amenity.nodes[n]
                   IN  (/\ FromNode(all_detours[d], node)
                        /\ TagKeys(node.tags) \cap NodeQueryKeys # {}) =>
                           RecordNamesItsTag(all_detours[d].amenity, node.tags)
            /\ \A w \in 1..Len(responses[1].amenity.ways) :
                   LET way == responses[1].amenity.ways[w]
                   IN  (/\ FromArea(all_detours[d], way)
                        /\ TagKeys(way.tags) \cap WayQueryKeys # {}) =>
                           RecordNamesItsTag(all_detours[d].amenity, way.tags)

HasCoordinates(node) == node.lat # None /\ node.lon # None

TwoResolved(way) ==
    Cardinality({k \in 1..Len(way.nodes) : HasCoordinates(way.nodes[k])}) >= 2

\* C17: discovery does not raise on features without coordinates; a node
\* lacking lat or lon and a way with fewer than 2 resolved nodes yield no
\* record, every other feature yields one, and the records are those the
\* well-formed features yield on their own.
ExtractorsSkipMalformed ==
    /\ pc \in {"discovery_call", "discovered"}
    /\ Discovered =>
           LET nodes == SelectSeq(responses[1].amenity.nodes, HasCoordinates)
               areas == SelectSeq(responses[1].amenity.ways, TwoResolved)
               ways == SelectSeq(responses[1].way.ways, TwoResolved)
           IN  /\ Len(SelectSeq(all_detours, IsAmenity)) = Len(nodes) + Len(areas)
               /\ Len(SelectSeq(all_detours, IsWay)) = Len(ways)
               /\ all_detours =
                      DetourOpportunities(sampled_coords[1][1], sampled_coords[1][2],
                                          Answer(nodes, areas), Answer(<<>>, ways))

\* An answer holding a node without latitude among two good ones, an area
\* with an unresolved node, and a way of a single node after a good one.
ExtractorsSkipMalformedWitness ==
    /\ Discovered
    /\ responses[1] = [amenity |-> AmenitiesFound, way |-> WaysFound]
    /\ Len(SelectSeq(all_detours, IsAmenity)) = 3
    /\ Len(SelectSeq(all_detours, IsWay)) = 1
    /\ \E k \in 1..Len(responses[1].amenity.nodes) :
           ~HasCoordinates(responses[1].amenity.nodes[k])
    /\ \E k \in 1..Len(responses[1].way.ways) : ~TwoResolved(responses[1].way.ways[k])

(***************************************************************************)
(* Further properties of analyze_route.                                    *)
(***************************************************************************)
\* C18: the deduplication pass applied to its own output returns it
\* unchanged: the same opportunities in the same order.
DeduplicationIdempotent ==
    Reported =>
        LET unique_detours == Deduplicate(all_detours, <<>>)
        IN  /\ Deduplicate(unique_detours, <<>>) = unique_detours
            /\ Deduplicate(Retained, <<>>) = Retained

\* A report whose pass dropped duplicates and kept amenities and ways.
DeduplicationIdempotentWitness ==
    /\ Reported
    /\ Len(Deduplicate(all_detours, <<>>)) < Len(all_detours)
    /\ analysis.detour_summary.amenity_detours >= 2
    /\ analysis.detour_summary.way_detours >= 1
    /\ Deduplicate(all_detours, <<>>) # all_detours

AmenityQueryAt(point) ==
    [query |-> "amenity", lat |-> point[1], lon |-> point[2],
     search_radius_m |-> detour_radius_m]

WayQueryAt(point) ==
    [query |-> "way", lat |-> point[1], lon |-> point[2],
     search_radius_m |-> detour_radius_m]

Ordered(indices) ==
    [k \in 1..Cardinality(indices) |->
         CHOOSE x \in indices : Cardinality({y \in indices : y < x}) = k - 1]

\* C20: the sample is the route's coordinates at increasing indices: the
\* first, then each coordinate at least one spacing from the one emitted
\* before it, every coordinate passed over being nearer than one spacing
\* to the one last emitted, and possibly the final coordinate appended.
GreedySample ==
    pc = "sampled" =>
        IF coordinates = <<>> THEN sampled_coords = <<>>
        ELSE \E emitted \in SUBSET (1..Len(coordinates)), appended \in BOOLEAN :
               LET last_emitted(j) == CHOOSE x \in emitted :
                                          x < j /\ \A y \in emitted : y < j => y <= x
                   indices == Ordered(emitted)
                   loop == [k \in 1..Len(indices) |-> coordinates[indices[k]]]
               IN  /\ 1 \in emitted
                   /\ appended => Len(coordinates) \notin emitted
                   /\ \A j \in emitted \ {1} :
                          HaversineM(coordinates[last_emitted(j)], coordinates[j])
                              >= sample_distance_m
                   /\ \A j \in (1..Len(coordinates)) \ emitted :
                          HaversineM(coordinates[last_emitted(j)], coordinates[j])
                              < sample_distance_m
                   /\ sampled_coords = IF appended
                                       THEN Append(loop, Last(coordinates))
                                       ELSE loop

\* A route of four coordinates: the second passed over, the third emitted,
\* the fourth too near to emit and appended as the end.
GreedySampleWitness ==
    /\ pc = "sampled"
    /\ Len(coordinates) = 4
    /\ Len(sampled_coords) = 3
    /\ sampled_coords[2] = coordinates[3]
    /\ ~SeqContains(sampled_coords, coordinates[2])
    /\ HaversineM(sampled_coords[1], coordinates[2]) < sample_distance_m
    /\ HaversineM(sampled_coords[1], sampled_coords[2]) >= sample_distance_m
    /\ HaversineM(sampled_coords[2], sampled_coords[3]) < sample_distance_m

(***************************************************************************)
(* Properties of the report and of what discovery keeps.                   *)
(***************************************************************************)
\* C21: in every report the total is the amenity count plus the way count,
\* the two counts are the sizes of the two listings, sampled_points is the
\* number of segments, and segment i has segment_id i and a detour_count
\* equal to the length of its detour list.
ReportCountsAgree ==
    Reported =>
        /\ analysis.detour_summary.total_detours
               = analysis.detour_summary.amenity_detours
                     + analysis.detour_summary.way_detours
        /\ analysis.detour_summary.amenity_detours = Len(analysis.all_detours.amenities)
        /\ analysis.detour_summary.way_detours = Len(analysis.all_detours.ways)
        /\ analysis.route_info.sampled_points = Len(analysis.route_segments)
        /\ \A k \in 1..Len(analysis.route_segments) :
               /\ analysis.route_segments[k].segment_id = k
               /\ analysis.route_segments[k].detour_count
                      = Len(analysis.route_segments[k].detours)

\* A report of three segments, with and without detours, listing amenities
\* and ways.
ReportCountsAgreeWitness ==
    /\ Reported
    /\ Len(analysis.route_segments) = 3
    /\ \E k \in 1..3 : analysis.route_segments[k].detour_count = 0
    /\ \E k \in 1..3 : analysis.route_segments[k].detour_count >= 3
    /\ analysis.detour_summary.amenity_detours >= 2
    /\ analysis.detour_summary.way_detours >= 1
    /\ analysis.detour_summary.total_detours >= 3

\* The source entity of an opportunity: a node, an area, or a way.
SourceOf(detour) ==
    IF detour.type = "amenity" THEN detour.amenity.osm_link ELSE detour.way.osm_link

\* C25: two amenity opportunities of different source entities, a node and
\* an area of the same numeric id, are both retained and both counted.
DistinctSourcesRetained ==
    Reported =>
        /\ \A k \in 1..Len(all_detours) :
               all_detours[k].type = "amenity" =>
                   \E r \in 1..Len(analysis.all_detours.amenities) :
                       SourceOf(analysis.all_detours.amenities[r]) = SourceOf(all_detours[k])
        /\ analysis.detour_summary.amenity_detours
               = Cardinality({SourceOf(all_detours[k]) :
                                  k \in {j \in 1..Len(all_detours) :
                                             all_detours[j].type = "amenity"}})

\* C26: when the amenity query of a point answers and its way query fails,
\* the amenities of the answer are among the point's detour opportunities.
AmenitiesSurviveWayFailure ==
    Reported =>
        \A k \in 1..Len(responses) :
            (~responses[k].amenity.failed /\ responses[k].way.failed) =>
                LET found == DetourOpportunities(sampled_coords[k][1], sampled_coords[k][2],
                                                 responses[k].amenity, NoFeatures)
                IN  \A j \in 1..Len(found) :
                        \E d \in 1..Len(route_segments[k].detours) :
                            route_segments[k].detours[d] = found[j]

(***************************************************************************)
(* Properties of the filters over documents of several sampling points.    *)
(***************************************************************************)
\* The filter that ran, applied to another document.
Refiltered(document) ==
    IF pc = "filtered_general" THEN filter_and_summarize_amenities(document)
    ELSE filter_amenities_by_user_needs(document, user_needs)

\* An amenity passes when the filter keeps it in a document listing it alone.
Passes(amenity) ==
    Refiltered(SavedDocument(<<SamplingPoint(1, <<amenity>>)>>)).total_relevant_amenities = 1

Unnamed(amenity) == amenity.name[1] = "Unnamed "

\* C22: in the output of the needs filter no kept amenity is unnamed unless
\* its category (the value of its type) is one of restaurant, cafe, bank,
\* atm, park.
UnnamedOnlyHighPriority ==
    (FilteredDocument /\ pc = "filtered_needs") =>
        \A k \in 1..Len(Kept(result)) :
            Unnamed(Kept(result)[k]) =>
                LowerWord(Kept(result)[k].type[3]) \in high_priority

\* The sampling points, in the document's order, at which an amenity passes.
Surviving ==
    SelectSeq(analysis.sampling_points,
              LAMBDA point : /\ "detours" \in DOMAIN point
                             /\ \E k \in 1..Len(point.detours.amenities) :
                                    Passes(point.detours.amenities[k]))

Limit == IF pc = "filtered_general" THEN 3 ELSE 5

\* C23: the general filter returns at most 3 locations and the needs filter
\* at most 5; the locations are the first sampling points, in the document's
\* order, with a surviving amenity; each location's total_nearby is the
\* number of amenities in its category groups.
TruncatedToFirst ==
    FilteredDocument =>
        /\ Len(result.key_amenity_locations) <= Limit
        /\ Len(result.key_amenity_locations)
               = (IF Len(Surviving) < Limit THEN Len(Surviving) ELSE Limit)
        /\ \A k \in 1..Len(result.key_amenity_locations) :
               /\ result.key_amenity_locations[k].coordinate = Surviving[k].coordinate
               /\ result.key_amenity_locations[k].total_nearby
                      = Len(KeptAt(result.key_amenity_locations[k]))

\* Both filters cut a document with more surviving points than they return.
TruncatedToFirstWitness ==
    /\ FilteredDocument
    /\ Len(Surviving) > Limit
    /\ Len(result.key_amenity_locations) = Limit
    /\ \E k \in 1..Limit : Surviving[k].point_id # k

\* C30: total_relevant_amenities is the number of distinct amenities that
\* pass, an amenity listed under several sampling points counted once.
TotalCountsDistinct ==
    FilteredDocument =>
        result.total_relevant_amenities
            = Cardinality({Listed[k] : k \in {j \in 1..Len(Listed) : Passes(Listed[j])}})

(***************************************************************************)
(* Properties of the chat loop.                                            *)
(***************************************************************************)
ChatEnded == pc \in {"chat_returned", "chat_error"}

\* C24: every chat call ends, having called the model at most 5 times and
\* run at most 5 rounds of tool calls.
ChatLoopTerminates ==
    /\ [](chat.model_calls <= 5 /\ chat.current_round <= 5)
    /\ (pc = "chat_call") ~> ChatEnded

\* A call that returned after five rounds of tool calls and five model calls.
ChatLoopTerminatesWitness ==
    /\ pc = "chat_returned"
    /\ chat.current_round = 5
    /\ chat.model_calls = 5
    /\ chat.returned = Fallback

\* What a call that ran the logged rounds adds to the history.
RoundMessages(response) == <<ToolCallsMessage(response)>> \o ToolMessages(response)

Added ==
    <<UserMessage>>
        \o Flatten([k \in 1..Len(chat.rounds) |-> RoundMessages(chat.rounds[k])])
        \o <<ReplyMessage(chat.returned)>>

\* C27: a call that returned has extended the history it was given by the
\* user message, then per tool round the assistant message with the tool
\* calls and one tool message per tool call, with its id and in its order,
\* then one assistant message with the reply; what the history held before
\* is still there, once.
HistoryExtendedInOrder ==
    pc = "chat_returned" =>
        /\ chat.conversation_history = chat.history_before \o Added
        /\ \A r \in 1..Len(chat.rounds) :
               \A k \in 1..Len(chat.rounds[r].tool_calls) :
                   RoundMessages(chat.rounds[r])[k + 1].tool_call_id
                       = RoundMessages(chat.rounds[r])[1].tool_calls[k].id

\* A second call on a history that holds a tool round, itself running two
\* rounds, one of them of two tool calls.
HistoryExtendedInOrderWitness ==
    /\ pc = "chat_returned"
    /\ chat.call = 2
    /\ Len(chat.history_before) = 4
    /\ chat.history_before[3].role = "tool"
    /\ Len(chat.rounds) = 2
    /\ Len(chat.rounds[1].tool_calls) = 2
    /\ Len(chat.conversation_history) = 4 + 1 + 3 + 2 + 1

(***************************************************************************)
(* Properties of the rerouting and of the detour route.                    *)
(***************************************************************************)
\* C28: the route smart_reroute returns is the initial route or a rerouted
\* route with strictly fewer detected highway segments than the initial
\* route, and at most max_attempts reroute requests are made.
NeverWorseThanInitial ==
    /\ reroute.requests <= reroute.max_attempts
    /\ (pc = "reroute_returned" /\ reroute.returned.routes) =>
           \/ reroute.returned = reroute.route
           \/ reroute.returned.highways < reroute.initial_highways

\* C29: after create_detour_route returns, on success or failure, neither
\* temporary file exists, and route.json was written only when both legs
\* were routed.
NoTempFilesLeft ==
    pc = "detour_returned" =>
        /\ detour_route.disk.route1_temp = "absent"
        /\ detour_route.disk.route2_temp = "absent"
        /\ detour_route.disk.route_json = "new" =>
               detour_route.route1_osrm.routes /\ detour_route.route2_osrm.routes
====
